---- MODULE Spec2Model ----
(***************************************************************************)
(* tiny-tales-admin: the entity store adapter (FirestoreClient), the book  *)
(* save / read / delete handlers, and the pipeline status, stop and        *)
(* remove-history handlers, as a state machine over the five document      *)
(* collections.                                                            *)
(*                                                                         *)
(* Store conventions used throughout:                                      *)
(*  - a document identifier is a positive integer drawn from nextId        *)
(*    (collection.doc() hands out a fresh identifier); 0 stands for an     *)
(*    absent reference;                                                    *)
(*  - a query returns its documents in identifier order;                   *)
(*  - a field written as undefined is left out of the write: on a create   *)
(*    the field is absent (Undef), on an update the stored value stays.    *)
(***************************************************************************)
EXTENDS Integers, Sequences, FiniteSets, TLC

VARIABLES
    books,       \* collection <prefix>_books
    chapters,    \* collection <prefix>_chapters
    subStories,  \* collection <prefix>_sub_stories
    pages,       \* collection <prefix>_pages
    steps,       \* collection <prefix>_processing_steps
    snapshots,   \* blob store: slug -> chapters_final.json document, or NoSnapshot
    nextId,      \* next fresh document identifier
    resp,        \* the response of the latest request
    pc,          \* concurrent saves: each request's position
    loc,         \* concurrent saves: each request's local variables
    published,   \* the Pub/Sub topic: every message published, oldest first; the
                 \* message identifier is the position
    topicExists, \* whether the configured topic exists
    view,        \* the polling view that is mounted: "management", "run" or "none"
    timers,      \* the interval timers that are running in the browser
    viewBooks,        \* management page: the safe titles of its books state
    statusPolling,    \* management page: state statusPolling, a handle per book
    pipelineStatuses, \* management page: state pipelineStatuses, a status per book
    runPolling,       \* run page: state statusPolling, one handle
    runStatus,        \* run page: state pipelineStatus
    nextTimer    \* the next handle setInterval returns

vars == <<books, chapters, subStories, pages, steps, snapshots, nextId, resp, pc, loc,
          published, topicExists, view, timers, viewBooks, statusPolling, pipelineStatuses,
          runPolling, runStatus, nextTimer>>

contentVars == <<books, chapters, subStories, pages>>

procVars == <<pc, loc>>

pubsubVars == <<published, topicExists>>

pollVars ==
    <<view, timers, viewBooks, statusPolling, pipelineStatuses, runPolling, runStatus, nextTimer>>

-----------------------------------------------------------------------------
(* Bounds *)

\* Largest document identifier the store hands out.
MaxId == 6

\* Most ProcessingStep rows the worker keeps for one book.
MaxSteps == 2

-----------------------------------------------------------------------------
(* JavaScript values *)

Undef == "<undefined>"

\* a || b on strings: '' and undefined are falsy
OrStr(a, b) == IF a = Undef \/ a = "" THEN b ELSE a

\* a || b on numbers: 0 is falsy
OrNum(a, b) == IF a = 0 THEN b ELSE a

\* String.prototype.toLowerCase on the status strings in use
ToLowerCase(s) ==
    CASE s = "IN_PROGRESS" -> "in_progress"
      [] s = "PROCESSING"  -> "processing"
      [] s = "COMPLETED"   -> "completed"
      [] s = "Completed"   -> "completed"
      [] s = "FAILED"      -> "failed"
      [] OTHER             -> s

\* The rows of S as a sequence ordered by field f, ties in identifier order
\* (Array.prototype.sort is stable over the query's identifier order).
RECURSIVE SortBy(_, _)
SortBy(S, f) ==
    IF S = {} THEN <<>>
    ELSE LET r == CHOOSE x \in S : \A y \in S :
                      \/ x[f] < y[f]
                      \/ (x[f] = y[f] /\ x.id <= y.id)
         IN  <<r>> \o SortBy(S \ {r}, f)

-----------------------------------------------------------------------------
(* Responses: the status code and the payload fields of the latest        *)
(* response; stepCount is the length of the returned steps array, branch   *)
(* names the rule of the status derivation that produced overallStatus.    *)

NoBody == [book_title |-> Undef, chapter_count |-> 0, chapters |-> <<>>]

NoResp ==
    [op |-> "none", code |-> 0, slug |-> Undef, bookStatus |-> Undef,
     overallStatus |-> Undef, isProcessing |-> FALSE, branch |-> Undef,
     stepCount |-> 0, cancelledSteps |-> 0, body |-> NoBody,
     messageIds |-> <<>>, attempts |-> 0]

Response(op, code, slug) == [NoResp EXCEPT !.op = op, !.code = code, !.slug = slug]

-----------------------------------------------------------------------------
(* Entity store adapter: reads *)

BooksBySafeTitle(safeTitle) == {b \in books : b.safe_title = safeTitle}

\* where('safe_title', '==', safeTitle).limit(1): docs[0], or null
HasBook(safeTitle) == BooksBySafeTitle(safeTitle) # {}

getBookBySafeTitle(safeTitle) ==
    CHOOSE b \in BooksBySafeTitle(safeTitle) :
        \A o \in BooksBySafeTitle(safeTitle) : b.id <= o.id

getProcessingStepsByBookId(bookId) ==
    SortBy({s \in steps : s.book_id = bookId}, "id")

-----------------------------------------------------------------------------
(* Status endpoint *)

IsActiveStatus(s) ==
    LET status == ToLowerCase(OrStr(s, ""))
    IN  status = "in_progress" \/ status = "processing"

IsFailedStatus(s) == ToLowerCase(OrStr(s, "")) = "failed"

IsCompletedStatus(s) == ToLowerCase(OrStr(s, "")) = "completed"

\* Variant: the step rules look at the first step only.
DeriveStatusFirstStepOnly(bookStatus, stepStatuses) ==
    LET n == Len(stepStatuses)
        hasInProgress == n > 0 /\ IsActiveStatus(stepStatuses[1])
        hasFailed == n > 0 /\ IsFailedStatus(stepStatuses[1])
        allCompleted == n > 0 /\ IsCompletedStatus(stepStatuses[1])
    IN  IF bookStatus = "processing" \/ bookStatus = "in_progress"
          THEN [overallStatus |-> "processing", isProcessing |-> TRUE, branch |-> "book"]
        ELSE IF bookStatus = "completed"
          THEN [overallStatus |-> "completed", isProcessing |-> FALSE, branch |-> "book"]
        ELSE IF bookStatus = "failed"
          THEN [overallStatus |-> "failed", isProcessing |-> FALSE, branch |-> "book"]
        ELSE IF hasInProgress
          THEN [overallStatus |-> "processing", isProcessing |-> TRUE, branch |-> "active"]
        ELSE IF hasFailed
          THEN [overallStatus |-> "failed", isProcessing |-> FALSE, branch |-> "failed"]
        ELSE IF allCompleted
          THEN [overallStatus |-> "completed", isProcessing |-> FALSE, branch |-> "completed"]
        ELSE IF n = 0
          THEN [overallStatus |-> "pending", isProcessing |-> FALSE, branch |-> "empty"]
        ELSE [overallStatus |-> "processing", isProcessing |-> TRUE, branch |-> "mixed"]

\* Variant: the step rules are tried before the book status.
DeriveStatusStepsFirst(bookStatus, stepStatuses) ==
    LET hasInProgress == \E i \in 1..Len(stepStatuses) : IsActiveStatus(stepStatuses[i])
        hasFailed == \E i \in 1..Len(stepStatuses) : IsFailedStatus(stepStatuses[i])
        allCompleted ==
            /\ Len(stepStatuses) > 0
            /\ \A i \in 1..Len(stepStatuses) : IsCompletedStatus(stepStatuses[i])
    IN  IF hasInProgress
          THEN [overallStatus |-> "processing", isProcessing |-> TRUE, branch |-> "active"]
        ELSE IF hasFailed
          THEN [overallStatus |-> "failed", isProcessing |-> FALSE, branch |-> "failed"]
        ELSE IF allCompleted
          THEN [overallStatus |-> "completed", isProcessing |-> FALSE, branch |-> "completed"]
        ELSE IF bookStatus = "processing" \/ bookStatus = "in_progress"
          THEN [overallStatus |-> "processing", isProcessing |-> TRUE, branch |-> "book"]
        ELSE IF bookStatus = "completed"
          THEN [overallStatus |-> "completed", isProcessing |-> FALSE, branch |-> "book"]
        ELSE IF bookStatus = "failed"
          THEN [overallStatus |-> "failed", isProcessing |-> FALSE, branch |-> "book"]
        ELSE IF Len(stepStatuses) = 0
          THEN [overallStatus |-> "pending", isProcessing |-> FALSE, branch |-> "empty"]
        ELSE [overallStatus |-> "processing", isProcessing |-> TRUE, branch |-> "mixed"]

\* Variant: a cancelled book is answered as terminal.
DeriveStatusCancelledTerminal(bookStatus, stepStatuses) ==
    LET hasInProgress == \E i \in 1..Len(stepStatuses) : IsActiveStatus(stepStatuses[i])
        hasFailed == \E i \in 1..Len(stepStatuses) : IsFailedStatus(stepStatuses[i])
        allCompleted ==
            /\ Len(stepStatuses) > 0
            /\ \A i \in 1..Len(stepStatuses) : IsCompletedStatus(stepStatuses[i])
    IN  IF bookStatus = "processing" \/ bookStatus = "in_progress"
          THEN [overallStatus |-> "processing", isProcessing |-> TRUE, branch |-> "book"]
        ELSE IF bookStatus = "completed"
          THEN [overallStatus |-> "completed", isProcessing |-> FALSE, branch |-> "book"]
        ELSE IF bookStatus = "failed" \/ bookStatus = "cancelled"
          THEN [overallStatus |-> "failed", isProcessing |-> FALSE, branch |-> "book"]
        ELSE IF hasInProgress
          THEN [overallStatus |-> "processing", isProcessing |-> TRUE, branch |-> "active"]
        ELSE IF hasFailed
          THEN [overallStatus |-> "failed", isProcessing |-> FALSE, branch |-> "failed"]
        ELSE IF allCompleted
          THEN [overallStatus |-> "completed", isProcessing |-> FALSE, branch |-> "completed"]
        ELSE IF Len(stepStatuses) = 0
          THEN [overallStatus |-> "pending", isProcessing |-> FALSE, branch |-> "empty"]
        ELSE [overallStatus |-> "processing", isProcessing |-> TRUE, branch |-> "mixed"]

\* Variant: steps that match no rule are answered with the book's own status.
DeriveStatusEchoBook(bookStatus, stepStatuses) ==
    LET hasInProgress == \E i \in 1..Len(stepStatuses) : IsActiveStatus(stepStatuses[i])
        hasFailed == \E i \in 1..Len(stepStatuses) : IsFailedStatus(stepStatuses[i])
        allCompleted ==
            /\ Len(stepStatuses) > 0
            /\ \A i \in 1..Len(stepStatuses) : IsCompletedStatus(stepStatuses[i])
    IN  IF bookStatus = "processing" \/ bookStatus = "in_progress"
          THEN [overallStatus |-> "processing", isProcessing |-> TRUE, branch |-> "book"]
        ELSE IF bookStatus = "completed"
          THEN [overallStatus |-> "completed", isProcessing |-> FALSE, branch |-> "book"]
        ELSE IF bookStatus = "failed"
          THEN [overallStatus |-> "failed", isProcessing |-> FALSE, branch |-> "book"]
        ELSE IF hasInProgress
          THEN [overallStatus |-> "processing", isProcessing |-> TRUE, branch |-> "active"]
        ELSE IF hasFailed
          THEN [overallStatus |-> "failed", isProcessing |-> FALSE, branch |-> "failed"]
        ELSE IF allCompleted
          THEN [overallStatus |-> "completed", isProcessing |-> FALSE, branch |-> "completed"]
        ELSE IF Len(stepStatuses) = 0
          THEN [overallStatus |-> "pending", isProcessing |-> FALSE, branch |-> "empty"]
        ELSE [overallStatus |-> bookStatus, isProcessing |-> TRUE, branch |-> "mixed"]

\* The derivation of {overallStatus, isProcessing} from bookStatus and the
\* step statuses; branch names the rule that fired.
DeriveStatus(bookStatus, stepStatuses) ==
    LET hasInProgress == \E i \in 1..Len(stepStatuses) : IsActiveStatus(stepStatuses[i])
        hasFailed == \E i \in 1..Len(stepStatuses) : IsFailedStatus(stepStatuses[i])
        allCompleted ==
            /\ Len(stepStatuses) > 0
            /\ \A i \in 1..Len(stepStatuses) : IsCompletedStatus(stepStatuses[i])
    IN  IF bookStatus = "processing" \/ bookStatus = "in_progress"
          THEN [overallStatus |-> "processing", isProcessing |-> TRUE, branch |-> "book"]
        ELSE IF bookStatus = "completed"
          THEN [overallStatus |-> "completed", isProcessing |-> FALSE, branch |-> "book"]
        ELSE IF bookStatus = "failed"
          THEN [overallStatus |-> "failed", isProcessing |-> FALSE, branch |-> "book"]
        ELSE IF hasInProgress
          THEN [overallStatus |-> "processing", isProcessing |-> TRUE, branch |-> "active"]
        ELSE IF hasFailed
          THEN [overallStatus |-> "failed", isProcessing |-> FALSE, branch |-> "failed"]
        ELSE IF allCompleted
          THEN [overallStatus |-> "completed", isProcessing |-> FALSE, branch |-> "completed"]
        ELSE IF Len(stepStatuses) = 0
          THEN [overallStatus |-> "pending", isProcessing |-> FALSE, branch |-> "empty"]
        ELSE [overallStatus |-> "processing", isProcessing |-> TRUE, branch |-> "mixed"]

\* Variant: a slug without a Book row is answered like a book without steps.
StatusBodyAbsentAsPending(bookSafeTitle) ==
    IF bookSafeTitle = "" THEN Response("status", 400, bookSafeTitle)
    ELSE IF ~HasBook(bookSafeTitle)
      THEN [Response("status", 200, bookSafeTitle) EXCEPT
               !.bookStatus = "unknown", !.overallStatus = "pending",
               !.isProcessing = FALSE, !.branch = "empty", !.stepCount = 0]
    ELSE LET book == getBookBySafeTitle(bookSafeTitle)
             stepRows == getProcessingStepsByBookId(book.id)
             bookStatus == OrStr(book.status, "unknown")
             stepStatuses == [i \in 1..Len(stepRows) |-> OrStr(stepRows[i].status, "unknown")]
             d == DeriveStatus(bookStatus, stepStatuses)
         IN  [Response("status", 200, bookSafeTitle) EXCEPT
                !.bookStatus = bookStatus,
                !.overallStatus = d.overallStatus,
                !.isProcessing = d.isProcessing,
                !.branch = d.branch,
                !.stepCount = Len(stepRows)]

\* the response of GET /api/pipeline/status?bookSafeTitle=...
StatusBody(bookSafeTitle) ==
    IF bookSafeTitle = "" THEN Response("status", 400, bookSafeTitle)
    ELSE IF ~HasBook(bookSafeTitle)
      THEN [Response("status", 200, bookSafeTitle) EXCEPT
               !.bookStatus = "not_found", !.overallStatus = "unknown",
               !.isProcessing = FALSE, !.stepCount = 0]
    ELSE LET book == getBookBySafeTitle(bookSafeTitle)
             stepRows == getProcessingStepsByBookId(book.id)
             bookStatus == OrStr(book.status, "unknown")
             stepStatuses == [i \in 1..Len(stepRows) |-> OrStr(stepRows[i].status, "unknown")]
             d == DeriveStatus(bookStatus, stepStatuses)
         IN  [Response("status", 200, bookSafeTitle) EXCEPT
                !.bookStatus = bookStatus,
                !.overallStatus = d.overallStatus,
                !.isProcessing = d.isProcessing,
                !.branch = d.branch,
                !.stepCount = Len(stepRows)]

\* GET /api/pipeline/status?bookSafeTitle=...
GetStatus(bookSafeTitle) ==
    /\ resp' = StatusBody(bookSafeTitle)
    /\ UNCHANGED <<contentVars, steps, snapshots, nextId, procVars, pubsubVars, pollVars>>

-----------------------------------------------------------------------------
(* Stop endpoint *)

CancelMessage == "Pipeline stopped by user"

\* updateBook(bookId, updates) restricted to the status field
updateBookStatus(bookId, status) ==
    {IF b.id = bookId THEN [b EXCEPT !.status = status] ELSE b : b \in books}

\* Variant: every step of the book is selected.
allStepsOfBook(bookId) == {s \in steps : s.book_id = bookId}

\* the steps cancelProcessingStepsByBookId selects
inProgressSteps(bookId) ==
    {s \in steps : s.book_id = bookId /\ (s.status = "in_progress" \/ s.status = "processing")}

\* Variant: the batch writes the message and leaves the status.
cancelMessageOnly(bookId) ==
    {IF s.book_id = bookId /\ (s.status = "in_progress" \/ s.status = "processing")
        THEN [s EXCEPT !.error_message = "Pipeline stopped by user"]
        ELSE s : s \in steps}

\* the steps collection after cancelProcessingStepsByBookId's batch commit
cancelProcessingStepsByBookId(bookId) ==
    {IF s \in inProgressSteps(bookId)
        THEN [s EXCEPT !.status = "cancelled", !.error_message = CancelMessage]
        ELSE s : s \in steps}

\* POST /api/pipeline/stop
Stop(bookSafeTitle) ==
    IF bookSafeTitle = ""
    THEN /\ resp' = Response("stop", 400, bookSafeTitle)
         /\ UNCHANGED <<contentVars, steps, snapshots, nextId, procVars, pubsubVars, pollVars>>
    ELSE IF ~HasBook(bookSafeTitle)
    THEN /\ resp' = Response("stop", 404, bookSafeTitle)
         /\ UNCHANGED <<contentVars, steps, snapshots, nextId, procVars, pubsubVars, pollVars>>
    ELSE LET book == getBookBySafeTitle(bookSafeTitle)
         IN  /\ books' = updateBookStatus(book.id, "cancelled")
             /\ steps' = cancelProcessingStepsByBookId(book.id)
             /\ resp' = [Response("stop", 200, bookSafeTitle) EXCEPT
                           !.cancelledSteps = Cardinality(inProgressSteps(book.id))]
             /\ UNCHANGED <<chapters, subStories, pages, snapshots, nextId, procVars, pubsubVars, pollVars>>

-----------------------------------------------------------------------------
(* The external worker: it creates Book and ProcessingStep rows and sets   *)
(* their status fields.                                                    *)

WorkerCreateBook(safeTitle, status) ==
    /\ ~HasBook(safeTitle)
    /\ nextId <= MaxId
    /\ books' = books \cup {[id |-> nextId, safe_title |-> safeTitle, title |-> safeTitle,
                             chapter_count |-> 0, status |-> status]}
    /\ nextId' = nextId + 1
    /\ UNCHANGED <<chapters, subStories, pages, steps, snapshots, resp, procVars, pubsubVars, pollVars>>

WorkerSetBookStatus(safeTitle, status) ==
    /\ HasBook(safeTitle)
    /\ books' = updateBookStatus(getBookBySafeTitle(safeTitle).id, status)
    /\ UNCHANGED <<chapters, subStories, pages, steps, snapshots, nextId, resp, procVars, pubsubVars, pollVars>>

StepError(status) == IF IsFailedStatus(status) THEN "step failed" ELSE Undef

WorkerAddStep(safeTitle, status) ==
    /\ HasBook(safeTitle)
    /\ nextId <= MaxId
    /\ LET book == getBookBySafeTitle(safeTitle)
       IN  /\ Cardinality({s \in steps : s.book_id = book.id}) < MaxSteps
           /\ steps' = steps \cup {[id |-> nextId, book_id |-> book.id, step_name |-> "step",
                                    status |-> status, error_message |-> StepError(status)]}
    /\ nextId' = nextId + 1
    /\ UNCHANGED <<contentVars, snapshots, resp, procVars, pubsubVars, pollVars>>

WorkerSetStep(stepId, status) ==
    /\ \E s \in steps : s.id = stepId
    /\ steps' = {IF s.id = stepId
                    THEN [s EXCEPT !.status = status, !.error_message = StepError(status)]
                    ELSE s : s \in steps}
    /\ UNCHANGED <<contentVars, snapshots, nextId, resp, procVars, pubsubVars, pollVars>>

-----------------------------------------------------------------------------
(* Strings the save handler inspects *)

\* safeTitle.replace(/_/g, ' ')
UnderscoresToSpaces(s) ==
    CASE s = "Tiny_Tales" -> "Tiny Tales"
      [] s = "Moby_Dick"  -> "Moby Dick"
      [] OTHER            -> s

\* `Chapter ${chapterIndex + 1}`, chapterIndex counted from 0
DefaultChapterTitle(chapterIndex) ==
    CASE chapterIndex = 0 -> "Chapter 1"
      [] chapterIndex = 1 -> "Chapter 2"
      [] chapterIndex = 2 -> "Chapter 3"
      [] OTHER            -> "Chapter N"

UrlImage == "https://cdn.example/a.png"

KeyImage == "books/Tiny_Tales/images/1_a.png"

\* imageUrl.startsWith('http')
StartsWithHttp(s) == s = UrlImage

\* imageUrl.startsWith('books/')
StartsWithBooks(s) == s = KeyImage

-----------------------------------------------------------------------------
(* Entity store adapter: writes.  A store value st is the record of the    *)
(* four content collections and the identifier counter, threaded through   *)
(* the calls of one handler.  It also carries the store calls that are to  *)
(* be rejected during the handler (failPages: upsertPage for these page    *)
(* numbers; failSubs: upsertSubStory for these sub-story numbers; none     *)
(* outside the fault specifications) and whether the handler has thrown;   *)
(* failReads: the chapters whose sub_stories query is rejected on a read.  *)

Store == [books |-> books, chapters |-> chapters, subStories |-> subStories,
          pages |-> pages, nextId |-> nextId,
          failPages |-> {}, failSubs |-> {}, error |-> FALSE, failReads |-> {}]

\* update(): the stored value stays where the update carries undefined
Keep(new, old) == IF new = Undef THEN old ELSE new

bookOf(st, safeTitle) ==
    LET m == {b \in st.books : b.safe_title = safeTitle}
    IN  CHOOSE b \in m : \A o \in m : b.id <= o.id

createBook(st, bookData) ==
    [st EXCEPT
       !.books = @ \cup {[id |-> st.nextId,
                          title |-> OrStr(bookData.title, ""),
                          safe_title |-> OrStr(bookData.safe_title, ""),
                          chapter_count |-> OrNum(bookData.chapter_count, 0),
                          status |-> OrStr(bookData.status, "pending")]},
       !.nextId = @ + 1]

\* Variant: an update that carries a title stores it as the safe_title too.
updateBookRecomputingSlug(st, bookId, updates) ==
    [st EXCEPT
       !.books = {IF b.id = bookId
                     THEN [b EXCEPT !.title = Keep(updates.title, @),
                                    !.safe_title = Keep(updates.title, Keep(updates.safe_title, @)),
                                    !.chapter_count = updates.chapter_count,
                                    !.status = Keep(updates.status, @)]
                     ELSE b : b \in @}]

updateBook(st, bookId, updates) ==
    [st EXCEPT
       !.books = {IF b.id = bookId
                     THEN [b EXCEPT !.title = Keep(updates.title, @),
                                    !.safe_title = Keep(updates.safe_title, @),
                                    !.chapter_count = updates.chapter_count,
                                    !.status = Keep(updates.status, @)]
                     ELSE b : b \in @}]

upsertBook(st, safeTitle, bookData) ==
    IF \E b \in st.books : b.safe_title = safeTitle
    THEN updateBook(st, bookOf(st, safeTitle).id, [bookData EXCEPT !.safe_title = safeTitle])
    ELSE createBook(st, [bookData EXCEPT
                           !.safe_title = safeTitle,
                           !.title = OrStr(bookData.title, UnderscoresToSpaces(safeTitle))])

chaptersOf(st, bookId) == SortBy({c \in st.chapters : c.book_id = bookId}, "order_index")

\* chapters.find(c => c.title === chapterTitle): the first match, 0 for none
RECURSIVE findByTitle(_, _)
findByTitle(rows, title) ==
    IF rows = <<>> THEN 0
    ELSE IF Head(rows).title = title THEN Head(rows).id
    ELSE findByTitle(Tail(rows), title)

\* Variant: the insert checks the natural key itself.
createChapterUnlessPresent(st, chapterData) ==
    IF \E c \in st.chapters : c.book_id = chapterData.book_id /\ c.title = chapterData.title
    THEN st
    ELSE [st EXCEPT
            !.chapters = @ \cup {[id |-> st.nextId,
                                  book_id |-> chapterData.book_id,
                                  title |-> OrStr(chapterData.title, ""),
                                  order_index |-> OrNum(chapterData.order_index, 0),
                                  narration_version |-> OrStr(chapterData.narration_version, "")]},
            !.nextId = @ + 1]

createChapter(st, chapterData) ==
    [st EXCEPT
       !.chapters = @ \cup {[id |-> st.nextId,
                             book_id |-> chapterData.book_id,
                             title |-> OrStr(chapterData.title, ""),
                             order_index |-> OrNum(chapterData.order_index, 0),
                             narration_version |-> OrStr(chapterData.narration_version, "")]},
       !.nextId = @ + 1]

updateChapter(st, chapterId, updates) ==
    [st EXCEPT
       !.chapters = {IF c.id = chapterId
                        THEN [c EXCEPT !.title = updates.title,
                                       !.order_index = updates.order_index,
                                       !.narration_version = updates.narration_version]
                        ELSE c : c \in @}]

\* Variant: the update branch was dropped, every call creates.
upsertChapterAlwaysCreate(st, bookId, chapterTitle, chapterData) ==
    createChapter(st, [chapterData EXCEPT
                         !.book_id = bookId,
                         !.title = chapterTitle,
                         !.order_index = Len(chaptersOf(st, bookId))])

upsertChapter(st, bookId, chapterTitle, chapterData) ==
    LET existing == findByTitle(chaptersOf(st, bookId), chapterTitle)
    IN  IF existing # 0
        THEN updateChapter(st, existing, [chapterData EXCEPT !.title = chapterTitle])
        ELSE createChapter(st, [chapterData EXCEPT
                                  !.book_id = bookId,
                                  !.title = chapterTitle,
                                  !.order_index = Len(chaptersOf(st, bookId))])

\* the identifier of the chapter upsertChapter returns
chapterIdAfter(st, bookId, chapterTitle) ==
    LET existing == findByTitle(chaptersOf(st, bookId), chapterTitle)
    IN  IF existing # 0 THEN existing ELSE st.nextId

\* the rows of the chapter in sub_story_number order
subStoriesOf(st, chapterId) ==
    SortBy({x \in st.subStories : x.chapter_id = chapterId}, "sub_story_number")

\* getSubStoriesByChapterId: a rejected query is caught and answered with
\* no rows
getSubStoriesByChapterId(st, chapterId) ==
    IF chapterId \in st.failReads THEN <<>> ELSE subStoriesOf(st, chapterId)

upsertSubStory(st, chapterId, subStoryNumber, subStoryData) ==
    LET m == {x \in st.subStories :
                 x.chapter_id = chapterId /\ x.sub_story_number = subStoryNumber}
        contentValue == IF subStoryData.content # Undef THEN subStoryData.content ELSE ""
        fields == [chapter_id |-> chapterId, sub_story_number |-> subStoryNumber,
                   title |-> OrStr(subStoryData.title, ""), content |-> contentValue]
    IN  IF m # {}
        THEN LET doc == CHOOSE x \in m : \A o \in m : x.id <= o.id
             IN  [st EXCEPT !.subStories =
                     (@ \ {doc}) \cup {[id |-> doc.id] @@ fields}]
        ELSE [st EXCEPT !.subStories = @ \cup {[id |-> st.nextId] @@ fields},
                        !.nextId = @ + 1]

pagesOfChapter(st, chapterId) ==
    SortBy({x \in st.pages : x.chapter_id = chapterId}, "page_number")

pagesOfSubStory(st, subStoryId) ==
    SortBy({x \in st.pages : x.sub_story_id = subStoryId}, "page_number")

\* pages.find(p => p.page_number === pageNumber): the first match, 0 for none
RECURSIVE findByPageNumber(_, _)
findByPageNumber(rows, pageNumber) ==
    IF rows = <<>> THEN 0
    ELSE IF Head(rows).page_number = pageNumber THEN Head(rows).id
    ELSE findByPageNumber(Tail(rows), pageNumber)

createPage(st, pageData) ==
    [st EXCEPT
       !.pages = @ \cup {[id |-> st.nextId,
                          chapter_id |-> pageData.chapter_id,
                          sub_story_id |-> 0,
                          page_number |-> OrNum(pageData.page_number, 0),
                          illustration_prompt |-> OrStr(pageData.illustration_prompt, ""),
                          dialogue |-> OrStr(pageData.dialogue, ""),
                          image_gcs_key |-> pageData.image_gcs_key,
                          image_url |-> pageData.image_url]},
       !.nextId = @ + 1]

updatePage(st, pageId, updates) ==
    [st EXCEPT
       !.pages = {IF x.id = pageId
                     THEN [x EXCEPT !.page_number = updates.page_number,
                                    !.illustration_prompt = Keep(updates.illustration_prompt, @),
                                    !.dialogue = Keep(updates.dialogue, @),
                                    !.image_gcs_key = Keep(updates.image_gcs_key, @),
                                    !.image_url = Keep(updates.image_url, @)]
                     ELSE x : x \in @}]

\* Variant: the update branch was dropped, every call creates.
upsertPageAlwaysCreate(st, chapterId, pageNumber, pageData) ==
    createPage(st, [pageData EXCEPT !.chapter_id = chapterId, !.page_number = pageNumber])

upsertPage(st, chapterId, pageNumber, pageData) ==
    LET existing == findByPageNumber(pagesOfChapter(st, chapterId), pageNumber)
    IN  IF existing # 0
        THEN updatePage(st, existing, [pageData EXCEPT !.page_number = pageNumber])
        ELSE createPage(st, [pageData EXCEPT !.chapter_id = chapterId, !.page_number = pageNumber])

-----------------------------------------------------------------------------
(* Save handler: PUT /api/books/[filename] *)

\* the pageData object built from one incoming section
sectionPageData(section) ==
    LET imageUrl == OrStr(section.illustration_image, "")
    IN  [chapter_id |-> 0, page_number |-> 0,
         dialogue |-> OrStr(section.dialogue, ""),
         illustration_prompt |-> OrStr(section.illustration_prompt, ""),
         image_url |-> IF StartsWithHttp(imageUrl) THEN imageUrl ELSE Undef,
         image_gcs_key |-> IF StartsWithBooks(imageUrl) THEN imageUrl ELSE Undef]

\* Variant: a rejected page upsert is not caught and ends the handler.
RECURSIVE saveSectionsThrowing(_, _, _)
saveSectionsThrowing(st, chapterId, sections) ==
    IF sections = <<>> \/ st.error THEN st
    ELSE IF OrNum(Head(sections).page_number, 0) \in st.failPages
    THEN [st EXCEPT !.error = TRUE]
    ELSE saveSectionsThrowing(
            upsertPage(st, chapterId, OrNum(Head(sections).page_number, 0),
                       sectionPageData(Head(sections))),
            chapterId, Tail(sections))

\* for (const section of sections) try { upsertPage(chapter.id, ...) }
\* catch { continue with other pages }
RECURSIVE saveSections(_, _, _)
saveSections(st, chapterId, sections) ==
    IF sections = <<>> THEN st
    ELSE IF OrNum(Head(sections).page_number, 0) \in st.failPages
    THEN saveSections(st, chapterId, Tail(sections))
    ELSE saveSections(
            upsertPage(st, chapterId, OrNum(Head(sections).page_number, 0),
                       sectionPageData(Head(sections))),
            chapterId, Tail(sections))

\* for (const subStory of readingVersion.sub_stories): the sub-story, then
\* its sections, which are written against the chapter; a rejected
\* sub-story upsert is caught, logged and thrown again
RECURSIVE saveSubStories(_, _, _)
saveSubStories(st, chapterId, subs) ==
    IF subs = <<>> THEN st
    ELSE IF OrNum(Head(subs).sub_story_number, 0) \in st.failSubs
    THEN [st EXCEPT !.error = TRUE]
    ELSE LET subStory == Head(subs)
             st1 == upsertSubStory(st, chapterId, OrNum(subStory.sub_story_number, 0),
                                   [title |-> OrStr(subStory.title, ""),
                                    content |-> OrStr(subStory.content, "")])
             st2 == saveSections(st1, chapterId, subStory.sections)
         IN  saveSubStories(st2, chapterId, Tail(subs))

\* the body of the chapter loop for chapterIndex (counted from 0) and later
RECURSIVE saveChapters(_, _, _, _)
saveChapters(st, bookId, chapterList, chapterIndex) ==
    IF chapterIndex >= Len(chapterList) \/ st.error THEN st
    ELSE LET chapterData == chapterList[chapterIndex + 1]
             chapterTitle == OrStr(chapterData.title, DefaultChapterTitle(chapterIndex))
             chapterId == chapterIdAfter(st, bookId, chapterTitle)
             st1 == upsertChapter(st, bookId, chapterTitle,
                                  [book_id |-> 0, title |-> Undef,
                                   narration_version |-> OrStr(chapterData.narration_version, ""),
                                   order_index |-> chapterIndex])
             st2 == IF chapterData.reading = "sub_stories"
                      THEN saveSubStories(st1, chapterId, chapterData.sub_stories)
                    ELSE IF chapterData.reading = "sections"
                      THEN saveSections(st1, chapterId, chapterData.sections)
                    ELSE st1
         IN  saveChapters(st2, bookId, chapterList, chapterIndex + 1)

\* the book upsert at the head of the handler
saveBook(st, safeTitle, data) ==
    IF ~\E b \in st.books : b.safe_title = safeTitle
    THEN upsertBook(st, safeTitle,
                    [title |-> OrStr(data.book_title, UnderscoresToSpaces(safeTitle)),
                     safe_title |-> Undef,
                     chapter_count |-> OrNum(Len(data.chapters), OrNum(data.chapter_count, 0)),
                     status |-> "pending"])
    ELSE LET book == bookOf(st, safeTitle)
         IN  IF OrStr(data.book_title, "") # "" \/ data.has_chapter_count
             THEN updateBook(st, book.id,
                             [title |-> OrStr(data.book_title, book.title),
                              safe_title |-> Undef,
                              chapter_count |-> OrNum(data.chapter_count,
                                                      OrNum(Len(data.chapters), book.chapter_count)),
                              status |-> Undef])
             ELSE st

\* book is the row getBookBySafeTitle found, or the row upsertBook returned;
\* the chapters are saved under its id
saveAll(st, safeTitle, data) ==
    LET bookId == IF \E b \in st.books : b.safe_title = safeTitle
                  THEN bookOf(st, safeTitle).id
                  ELSE st.nextId
    IN  saveChapters(saveBook(st, safeTitle, data), bookId, data.chapters, 0)

\* the handler while the store rejects the listed calls: the rows written
\* before a throw stay, the outer catch answers 500
SaveWithFaults(safeTitle, data, failPages, failSubs) ==
    \E st \in {saveAll([Store EXCEPT !.failPages = failPages, !.failSubs = failSubs],
                        safeTitle, data)} :
        /\ st.nextId <= MaxId + 1
        /\ books' = st.books
        /\ chapters' = st.chapters
        /\ subStories' = st.subStories
        /\ pages' = st.pages
        /\ nextId' = st.nextId
        /\ resp' = Response("save", IF st.error THEN 500 ELSE 200, safeTitle)
        /\ UNCHANGED <<steps, snapshots, procVars, pubsubVars, pollVars>>

Save(safeTitle, data) ==
    \E st \in {saveAll(Store, safeTitle, data)} :
        /\ st.nextId <= MaxId + 1
        /\ books' = st.books
        /\ chapters' = st.chapters
        /\ subStories' = st.subStories
        /\ pages' = st.pages
        /\ nextId' = st.nextId
        /\ resp' = Response("save", 200, safeTitle)
        /\ UNCHANGED <<steps, snapshots, procVars, pubsubVars, pollVars>>

-----------------------------------------------------------------------------
(* Book view resolver: getBookWithChaptersAndPages, and GET /api/books/[filename] *)

NoSnapshot == [exists |-> FALSE, book_title |-> Undef, chapter_count |-> 0, chapters |-> <<>>]

\* loadBookJSON: the blob store's document for the slug, else null
loadBookJSON(safeTitle) == snapshots[safeTitle]

\* Variant: the storage key is preferred to the URL.
pageSectionKeyFirst(page) ==
    [page_number |-> OrNum(page.page_number, 0),
     illustration_prompt |-> OrStr(page.illustration_prompt, ""),
     dialogue |-> OrStr(page.dialogue, ""),
     illustration_image |-> OrStr(page.image_gcs_key, OrStr(page.image_url, ""))]

\* a page row as a section of the result
pageSection(page) ==
    [page_number |-> OrNum(page.page_number, 0),
     illustration_prompt |-> OrStr(page.illustration_prompt, ""),
     dialogue |-> OrStr(page.dialogue, ""),
     illustration_image |-> OrStr(page.image_url, OrStr(page.image_gcs_key, ""))]

sectionsOf(rows) == [i \in 1..Len(rows) |-> pageSection(rows[i])]

\* the snapshot path
snapshotView(safeTitle, jsonData) ==
    [book_title |-> OrStr(jsonData.book_title, safeTitle),
     chapter_count |-> OrNum(jsonData.chapter_count, 0),
     chapters |->
       [i \in 1..Len(jsonData.chapters) |->
          LET chapter == jsonData.chapters[i]
          IN  [id |-> 0,
               title |-> OrStr(chapter.title, ""),
               narration_version |-> OrStr(chapter.narration_version, ""),
               reading |-> IF chapter.reading = "sub_stories" THEN "sub_stories" ELSE "sections",
               sub_stories |->
                 IF chapter.reading = "sub_stories"
                 THEN [j \in 1..Len(chapter.sub_stories) |->
                         [sub_story_number |-> OrNum(chapter.sub_stories[j].sub_story_number, 0),
                          title |-> OrStr(chapter.sub_stories[j].title, ""),
                          content |-> OrStr(chapter.sub_stories[j].content, ""),
                          sections |-> sectionsOf(chapter.sub_stories[j].sections)]]
                 ELSE <<>>,
               sections |->
                 IF chapter.reading = "sub_stories" THEN <<>> ELSE sectionsOf(chapter.sections)]]]

\* the entity-graph path, for an existing book
storeView(st, book) ==
    LET rows == chaptersOf(st, book.id)
    IN  [book_title |-> book.title,
         chapter_count |-> book.chapter_count,
         chapters |->
           [i \in 1..Len(rows) |->
              LET chapter == rows[i]
                  subs == getSubStoriesByChapterId(st, chapter.id)
              IN  [id |-> chapter.id,
                   title |-> chapter.title,
                   narration_version |-> OrStr(chapter.narration_version, ""),
                   reading |-> IF Len(subs) > 0 THEN "sub_stories" ELSE "sections",
                   sub_stories |->
                     [j \in 1..Len(subs) |->
                        [sub_story_number |-> OrNum(subs[j].sub_story_number, 0),
                         title |-> OrStr(subs[j].title, ""),
                         content |-> OrStr(subs[j].content, ""),
                         sections |-> sectionsOf(pagesOfSubStory(st, subs[j].id))]],
                   sections |->
                     IF Len(subs) > 0 THEN <<>>
                     ELSE sectionsOf(pagesOfChapter(st, chapter.id))]]]

\* Variant: the entity graph is tried first, the snapshot second.
getBookStoreFirst(safeTitle) ==
    IF HasBook(safeTitle)
    THEN [found |-> TRUE, source |-> "store",
          data |-> storeView(Store, getBookBySafeTitle(safeTitle))]
    ELSE IF loadBookJSON(safeTitle).exists
    THEN [found |-> TRUE, source |-> "snapshot",
          data |-> snapshotView(safeTitle, loadBookJSON(safeTitle))]
    ELSE [found |-> FALSE, source |-> "none", data |-> NoBody]

\* [found, source, data]: the resolver's result for the slug
getBookWithChaptersAndPages(safeTitle) ==
    IF loadBookJSON(safeTitle).exists
    THEN [found |-> TRUE, source |-> "snapshot",
          data |-> snapshotView(safeTitle, loadBookJSON(safeTitle))]
    ELSE IF ~HasBook(safeTitle)
    THEN [found |-> FALSE, source |-> "none", data |-> NoBody]
    ELSE [found |-> TRUE, source |-> "store",
          data |-> storeView(Store, getBookBySafeTitle(safeTitle))]

ReadBook(safeTitle) ==
    /\ LET bookData == getBookWithChaptersAndPages(safeTitle)
       IN  resp' = IF ~bookData.found THEN Response("read", 404, safeTitle)
                   ELSE [Response("read", 200, safeTitle) EXCEPT
                            !.branch = bookData.source, !.body = bookData.data]
    /\ UNCHANGED <<contentVars, steps, snapshots, nextId, procVars, pubsubVars, pollVars>>

\* GET /api/books/[filename] while the store rejects the sub_stories query
\* of the listed chapters
ReadBookWithFaults(safeTitle, failReads) ==
    /\ LET jsonData == loadBookJSON(safeTitle)
           bookData ==
               IF jsonData.exists
               THEN [found |-> TRUE, source |-> "snapshot",
                     data |-> snapshotView(safeTitle, jsonData)]
               ELSE IF ~HasBook(safeTitle)
               THEN [found |-> FALSE, source |-> "none", data |-> NoBody]
               ELSE [found |-> TRUE, source |-> "store",
                     data |-> storeView([Store EXCEPT !.failReads = failReads],
                                        getBookBySafeTitle(safeTitle))]
       IN  resp' = IF ~bookData.found THEN Response("read", 404, safeTitle)
                   ELSE [Response("read", 200, safeTitle) EXCEPT
                            !.branch = bookData.source, !.body = bookData.data]
    /\ UNCHANGED <<contentVars, steps, snapshots, nextId, procVars, pubsubVars, pollVars>>

-----------------------------------------------------------------------------
(* Deletions *)

\* Variant: the batch deletes every row of the collection.
deleteProcessingStepsOfAllBooks(bookId) == {}

deleteProcessingStepsByBookId(bookId) == {x \in steps : x.book_id # bookId}

\* the pages collection after deletePagesByChapterId for each chapter of the book
deletePagesOfChapters(chapterIds) == {x \in pages : x.chapter_id \notin chapterIds}

\* the chapters collection after deleteChaptersByBookId
deleteChaptersByBookId(bookId) == {c \in chapters : c.book_id # bookId}

\* DELETE /api/pipeline/[bookSafeTitle]
RemoveHistory(bookSafeTitle) ==
    IF ~HasBook(bookSafeTitle)
    THEN /\ resp' = Response("remove", 404, bookSafeTitle)
         /\ UNCHANGED <<contentVars, steps, snapshots, nextId, procVars, pubsubVars, pollVars>>
    ELSE /\ steps' = deleteProcessingStepsByBookId(getBookBySafeTitle(bookSafeTitle).id)
         /\ resp' = Response("remove", 200, bookSafeTitle)
         /\ UNCHANGED <<contentVars, snapshots, nextId, procVars, pubsubVars, pollVars>>

\* DELETE /api/books/[filename]: deleteBook, then the blobs under
\* books/<safeTitle>/ when a bucket is configured and the deletion succeeds
DeleteBook(safeTitle) ==
    IF ~HasBook(safeTitle)
    THEN /\ resp' = Response("delete", 404, safeTitle)
         /\ UNCHANGED <<contentVars, steps, snapshots, nextId, procVars, pubsubVars, pollVars>>
    ELSE LET book == getBookBySafeTitle(safeTitle)
             chapterIds == {c.id : c \in {c \in chapters : c.book_id = book.id}}
         IN  /\ steps' = deleteProcessingStepsByBookId(book.id)
             /\ pages' = deletePagesOfChapters(chapterIds)
             /\ chapters' = deleteChaptersByBookId(book.id)
             /\ books' = {b \in books : b.id # book.id}
             /\ \/ snapshots' = snapshots
                \/ snapshots' = [snapshots EXCEPT ![safeTitle] = NoSnapshot]
             /\ resp' = Response("delete", 200, safeTitle)
             /\ UNCHANGED <<subStories, nextId, procVars, pubsubVars, pollVars>>

-----------------------------------------------------------------------------
(* The external worker's content writes *)

\* a Page row of the sub-story schema, owned by an existing SubStory row
WorkerAddSubStoryPage(subStoryId, pageNumber) ==
    /\ nextId <= MaxId
    /\ \E x \in subStories : x.id = subStoryId
    /\ ~\E x \in pages : x.sub_story_id = subStoryId /\ x.page_number = pageNumber
    /\ pages' = pages \cup {[id |-> nextId, chapter_id |-> 0, sub_story_id |-> subStoryId,
                             page_number |-> pageNumber, illustration_prompt |-> "prompt",
                             dialogue |-> "worker", image_gcs_key |-> KeyImage,
                             image_url |-> Undef]}
    /\ nextId' = nextId + 1
    /\ UNCHANGED <<books, chapters, subStories, steps, snapshots, resp, procVars, pubsubVars, pollVars>>

\* the illustration step stores the image of a page
WorkerSetPageImage(pageId, url, key) ==
    /\ \E x \in pages : x.id = pageId /\ (x.image_url # url \/ x.image_gcs_key # key)
    /\ pages' = {IF x.id = pageId THEN [x EXCEPT !.image_url = url, !.image_gcs_key = key]
                 ELSE x : x \in pages}
    /\ UNCHANGED <<books, chapters, subStories, steps, snapshots, nextId, resp, procVars,
                   pubsubVars, pollVars>>

\* the chapters_final.json artifact of a pipeline run
WorkerWriteSnapshot(safeTitle, doc) ==
    /\ snapshots[safeTitle] # doc
    /\ snapshots' = [snapshots EXCEPT ![safeTitle] = doc]
    /\ UNCHANGED <<contentVars, steps, nextId, resp, procVars, pubsubVars, pollVars>>

-----------------------------------------------------------------------------
(* Trigger endpoint: POST /api/pipeline/trigger *)

\* Most messages the topic holds.
MaxMessages == 4

\* the message of one publishMessage call: its data and its attributes
TriggerMessage(bookSafeTitle, chapterTitle, routing, content, illustrations) ==
    [action |-> routing,
     book_safe_title |-> bookSafeTitle,
     book_title |-> UnderscoresToSpaces(bookSafeTitle),
     chapter_title |-> IF OrStr(chapterTitle, "") # "" THEN chapterTitle ELSE Undef,
     regenerate_content |-> content,
     regenerate_illustrations_only |-> illustrations]

\* Variant: the illustrations message is published first.
bothMessagesIllustrationsFirst(bookSafeTitle, chapterTitle) ==
    <<TriggerMessage(bookSafeTitle, chapterTitle, "illustrations", FALSE, TRUE),
      TriggerMessage(bookSafeTitle, chapterTitle, "content", TRUE, FALSE)>>

\* action both: messageData1 with its attributes, then messageData2
bothMessages(bookSafeTitle, chapterTitle) ==
    <<TriggerMessage(bookSafeTitle, chapterTitle, "content", TRUE, FALSE),
      TriggerMessage(bookSafeTitle, chapterTitle, "illustrations", FALSE, TRUE)>>

\* a single action: messageData with the flag of the action
singleMessage(bookSafeTitle, action, chapterTitle) ==
    TriggerMessage(bookSafeTitle, chapterTitle, action,
                   action = "content", action = "illustrations")

\* Variant: no publishMessage call is rejected.
publishNeverThrows(failAt, call) == FALSE

\* whether the publishMessage call of that ordinal within the request throws
publishThrows(failAt, call) == failAt = call

\* Variant: when the second publish of action both is rejected, the content
\* message is withdrawn.
triggerOutcomeCompensating(bookSafeTitle, action, chapterTitle, hasProject, failAt) ==
    LET n == Len(published)
        fail(code, sent, calls) ==
            [published |-> published \o sent,
             resp |-> [Response("trigger", code, bookSafeTitle) EXCEPT !.attempts = calls]]
        ok(sent) ==
            [published |-> published \o sent,
             resp |-> [Response("trigger", 200, bookSafeTitle) EXCEPT
                         !.messageIds = [i \in 1..Len(sent) |-> n + i],
                         !.attempts = Len(sent)]]
    IN  IF bookSafeTitle = "" THEN fail(400, <<>>, 0)
        ELSE IF ~hasProject THEN fail(500, <<>>, 0)
        ELSE IF ~topicExists THEN fail(404, <<>>, 0)
        ELSE IF action = "both"
          THEN LET msgs == bothMessages(bookSafeTitle, chapterTitle)
               IN  IF publishThrows(failAt, 1) THEN fail(500, <<>>, 1)
                   ELSE IF publishThrows(failAt, 2) THEN fail(500, <<>>, 2)
                   ELSE ok(msgs)
        ELSE IF publishThrows(failAt, 1) THEN fail(500, <<>>, 1)
        ELSE ok(<<singleMessage(bookSafeTitle, action, chapterTitle)>>)

\* the handler's effect on the topic and its response.  hasProject: the
\* configuration names a project; failAt: the ordinal of the publishMessage
\* call the service rejects in this request, 0 for none
triggerOutcome(bookSafeTitle, action, chapterTitle, hasProject, failAt) ==
    LET n == Len(published)
        fail(code, sent, calls) ==
            [published |-> published \o sent,
             resp |-> [Response("trigger", code, bookSafeTitle) EXCEPT !.attempts = calls]]
        ok(sent) ==
            [published |-> published \o sent,
             resp |-> [Response("trigger", 200, bookSafeTitle) EXCEPT
                         !.messageIds = [i \in 1..Len(sent) |-> n + i],
                         !.attempts = Len(sent)]]
    IN  IF bookSafeTitle = "" THEN fail(400, <<>>, 0)
        ELSE IF ~hasProject THEN fail(500, <<>>, 0)
        ELSE IF ~topicExists THEN fail(404, <<>>, 0)
        ELSE IF action = "both"
          THEN LET msgs == bothMessages(bookSafeTitle, chapterTitle)
               IN  IF publishThrows(failAt, 1) THEN fail(500, <<>>, 1)
                   ELSE IF publishThrows(failAt, 2) THEN fail(500, <<msgs[1]>>, 2)
                   ELSE ok(msgs)
        ELSE IF publishThrows(failAt, 1) THEN fail(500, <<>>, 1)
        ELSE ok(<<singleMessage(bookSafeTitle, action, chapterTitle)>>)

Trigger(bookSafeTitle, action, chapterTitle, hasProject, failAt) ==
    /\ Len(published) + 2 <= MaxMessages
    /\ published' = triggerOutcome(bookSafeTitle, action, chapterTitle, hasProject, failAt).published
    /\ resp' = triggerOutcome(bookSafeTitle, action, chapterTitle, hasProject, failAt).resp
    /\ UNCHANGED <<contentVars, steps, snapshots, nextId, procVars, topicExists, pollVars>>

\* the topic is created or deleted in the cloud project
SetTopicExists(exists) ==
    /\ topicExists # exists
    /\ topicExists' = exists
    /\ UNCHANGED <<contentVars, steps, snapshots, nextId, resp, procVars, published, pollVars>>

-----------------------------------------------------------------------------
(* Polling views: handles and statuses *)

Slugs == {"Tiny_Tales", "Moby_Dick"}

(* A timer is a record [id, slug, orphan]: the handle setInterval returned, *)
(* the book its callback fetches the status of, and whether the component  *)
(* that started it has been unmounted since (its callback still fetches,   *)
(* the state updates of the response are dropped).  A tick is one step:    *)
(* the fetch, the endpoint's answer, the state update and the effects that *)
(* the update schedules.  The fetch a trigger handler issues before it     *)
(* starts its timer is answered like a first tick.                         *)

\* Most handles setInterval hands out.
MaxTimers == 3

\* statusPolling holds no handle for the book
NoTimer == 0

\* pipelineStatuses holds no entry for the book
NotLoaded == [overallStatus |-> Undef, isProcessing |-> FALSE, bookStatus |-> Undef]

\* the optimistic update of a successful trigger
OptimisticStatus == [overallStatus |-> "processing", isProcessing |-> TRUE, bookStatus |-> Undef]

\* management page, loadPipelineStatus: the entry built from the response
managementStatus(data) ==
    [overallStatus |-> OrStr(data.overallStatus, "unknown"),
     isProcessing |-> data.isProcessing,
     bookStatus |-> OrStr(data.bookStatus, "unknown")]

\* run page, loadPipelineStatus: the state built from the response
runPageStatus(data) ==
    [overallStatus |-> OrStr(data.overallStatus, "unknown"),
     isProcessing |-> data.isProcessing,
     bookStatus |-> Undef]

\* management page, polling effect: shouldPoll
shouldPoll(status) ==
    \/ status.isProcessing
    \/ status.overallStatus = "processing"
    \/ status.overallStatus = "in_progress"
    \/ status.overallStatus = "pending"
    \/ status.bookStatus = "processing"
    \/ status = NotLoaded

clearInterval(running, handle) == {t \in running : t.id # handle}

\* management page, polling effect, the body of books.forEach for one book;
\* ps is the record of timers, statusPolling and nextTimer
pollingEffectFor(ps, statuses, slug) ==
    IF shouldPoll(statuses[slug]) /\ ps.statusPolling[slug] = NoTimer
    THEN [timers |-> ps.timers \cup {[id |-> ps.nextTimer, slug |-> slug, orphan |-> FALSE]},
          statusPolling |-> [ps.statusPolling EXCEPT ![slug] = ps.nextTimer],
          nextTimer |-> ps.nextTimer + 1]
    ELSE IF ~shouldPoll(statuses[slug]) /\ ps.statusPolling[slug] # NoTimer
    THEN [timers |-> clearInterval(ps.timers, ps.statusPolling[slug]),
          statusPolling |-> [ps.statusPolling EXCEPT ![slug] = NoTimer],
          nextTimer |-> ps.nextTimer]
    ELSE ps

\* management page, polling effect: books.forEach
RECURSIVE pollingEffect(_, _, _)
pollingEffect(ps, statuses, bookSet) ==
    IF bookSet = {} THEN ps
    ELSE LET slug == CHOOSE x \in bookSet : TRUE
         IN  pollingEffect(pollingEffectFor(ps, statuses, slug), statuses, bookSet \ {slug})

Polling == [timers |-> timers, statusPolling |-> statusPolling, nextTimer |-> nextTimer]

\* the page is opened: loadBooks sets books, the polling effect runs with no
\* status loaded
MountManagement ==
    /\ view = "none"
    /\ view' = "management"
    /\ viewBooks' = {b.safe_title : b \in books}
    /\ pipelineStatuses' = [s \in Slugs |-> NotLoaded]
    /\ LET ps == pollingEffect([Polling EXCEPT !.statusPolling = [s \in Slugs |-> NoTimer]],
                               pipelineStatuses', viewBooks')
       IN  /\ ps.nextTimer <= MaxTimers + 1
           /\ timers' = ps.timers
           /\ statusPolling' = ps.statusPolling
           /\ nextTimer' = ps.nextTimer
    /\ UNCHANGED <<contentVars, steps, snapshots, nextId, resp, procVars, pubsubVars,
                   runPolling, runStatus>>

\* the run page is opened
MountRun ==
    /\ view = "none"
    /\ view' = "run"
    /\ runPolling' = NoTimer
    /\ runStatus' = NotLoaded
    /\ UNCHANGED <<contentVars, steps, snapshots, nextId, resp, procVars, pubsubVars,
                   timers, viewBooks, statusPolling, pipelineStatuses, nextTimer>>

timerOf(handle) == CHOOSE t \in timers : t.id = handle

\* a timer's callback runs: loadPipelineStatus(slug)
TimerFiresFor(t) ==
    /\ resp' = StatusBody(t.slug)
    /\ IF t.orphan \/ resp'.code # 200
       THEN UNCHANGED pollVars
       ELSE IF view = "management"
       THEN /\ pipelineStatuses' = [pipelineStatuses EXCEPT ![t.slug] = managementStatus(resp')]
            /\ LET ps == pollingEffect(Polling, pipelineStatuses', viewBooks)
               IN  /\ ps.nextTimer <= MaxTimers + 1
                   /\ timers' = ps.timers
                   /\ statusPolling' = ps.statusPolling
                   /\ nextTimer' = ps.nextTimer
            /\ UNCHANGED <<view, viewBooks, runPolling, runStatus>>
       ELSE /\ runStatus' = runPageStatus(resp')
            /\ IF ~resp'.isProcessing
               THEN /\ timers' = clearInterval(timers, runPolling)
                    /\ runPolling' = NoTimer
               ELSE UNCHANGED <<timers, runPolling>>
            /\ UNCHANGED <<view, viewBooks, statusPolling, pipelineStatuses, nextTimer>>
    /\ UNCHANGED <<contentVars, steps, snapshots, nextId, procVars, pubsubVars>>

TimerFires(handle) ==
    /\ \E t \in timers : t.id = handle
    /\ TimerFiresFor(timerOf(handle))

\* management page, triggerPipeline: the request, and on success the
\* optimistic status, a new timer and its handle
TriggerFromManagement(slug, action, failAt) ==
    /\ view = "management"
    /\ slug \in viewBooks
    /\ Len(published) + 2 <= MaxMessages
    /\ LET out == triggerOutcome(slug, action, Undef, TRUE, failAt)
       IN  /\ published' = out.published
           /\ resp' = out.resp
           /\ IF out.resp.code = 200
              THEN /\ nextTimer <= MaxTimers
                   /\ pipelineStatuses' = [pipelineStatuses EXCEPT ![slug] = OptimisticStatus]
                   /\ LET started == [Polling EXCEPT
                                        !.timers = @ \cup {[id |-> nextTimer, slug |-> slug,
                                                            orphan |-> FALSE]},
                                        !.statusPolling = [@ EXCEPT ![slug] = nextTimer],
                                        !.nextTimer = @ + 1]
                          ps == pollingEffect(started, pipelineStatuses', viewBooks)
                      IN  /\ ps.nextTimer <= MaxTimers + 1
                          /\ timers' = ps.timers
                          /\ statusPolling' = ps.statusPolling
                          /\ nextTimer' = ps.nextTimer
                   /\ UNCHANGED <<view, viewBooks, runPolling, runStatus>>
              ELSE UNCHANGED pollVars
    /\ UNCHANGED <<contentVars, steps, snapshots, nextId, procVars, topicExists>>

\* run page, handleSubmit: the request, and on success the optimistic
\* status, a new timer and its handle; the cleanup of the effect on
\* statusPolling clears the handle that was there
SubmitFromRun(slug, action, chapterTitle, failAt) ==
    /\ view = "run"
    /\ slug # ""
    /\ Len(published) + 2 <= MaxMessages
    /\ LET out == triggerOutcome(slug, action, chapterTitle, TRUE, failAt)
       IN  /\ published' = out.published
           /\ resp' = out.resp
           /\ IF out.resp.code = 200
              THEN /\ nextTimer <= MaxTimers
                   /\ runStatus' = OptimisticStatus
                   /\ timers' = clearInterval(timers, runPolling)
                                  \cup {[id |-> nextTimer, slug |-> slug, orphan |-> FALSE]}
                   /\ runPolling' = nextTimer
                   /\ nextTimer' = nextTimer + 1
                   /\ UNCHANGED <<view, viewBooks, statusPolling, pipelineStatuses>>
              ELSE UNCHANGED pollVars
    /\ UNCHANGED <<contentVars, steps, snapshots, nextId, procVars, topicExists>>

\* the view is closed.  Management page: the cleanup was created by the
\* first render and clears the handles statusPolling held then, which are
\* none.  Run page: the cleanup of the effect on statusPolling clears the
\* handle the state holds.
Unmount ==
    /\ view # "none"
    /\ view' = "none"
    /\ LET kept == IF view = "run" THEN clearInterval(timers, runPolling) ELSE timers
       IN  timers' = {[t EXCEPT !.orphan = TRUE] : t \in kept}
    /\ UNCHANGED <<contentVars, steps, snapshots, nextId, resp, procVars, pubsubVars,
                   viewBooks, statusPolling, pipelineStatuses, runPolling, runStatus, nextTimer>>

-----------------------------------------------------------------------------
(* Initial state: empty collections, no snapshot, no request in flight *)

Procs == {1, 2}

IdleLoc ==
    [slug |-> Undef, title |-> Undef, page |-> 0, bookId |-> 0, chapterId |-> 0,
     found |-> 0, count |-> 0, chapterIds |-> <<>>, stepIds |-> {}]

Init ==
    /\ books = {}
    /\ chapters = {}
    /\ subStories = {}
    /\ pages = {}
    /\ steps = {}
    /\ snapshots = [s \in Slugs |-> NoSnapshot]
    /\ nextId = 1
    /\ resp = NoResp
    /\ pc = [p \in Procs |-> "idle"]
    /\ loc = [p \in Procs |-> IdleLoc]
    /\ published = <<>>
    /\ topicExists = TRUE
    /\ view = "none"
    /\ timers = {}
    /\ viewBooks = {}
    /\ statusPolling = [s \in Slugs |-> NoTimer]
    /\ pipelineStatuses = [s \in Slugs |-> NotLoaded]
    /\ runPolling = NoTimer
    /\ runStatus = NotLoaded
    /\ nextTimer = 1

-----------------------------------------------------------------------------
(* Specification of the pipeline status and stop endpoints against the     *)
(* worker's status writes, for one book.                                   *)

StatusSlugs == {"Tiny_Tales"}

BookStatusValues ==
    {Undef, "pending", "processing", "in_progress", "completed", "failed", "cancelled"}

StepStatusValues ==
    {Undef, "in_progress", "processing", "completed", "failed", "cancelled", "IN_PROGRESS"}

NextStatus ==
    \/ \E s \in StatusSlugs, st \in BookStatusValues : WorkerCreateBook(s, st)
    \/ \E s \in StatusSlugs, st \in BookStatusValues : WorkerSetBookStatus(s, st)
    \/ \E s \in StatusSlugs, st \in StepStatusValues : WorkerAddStep(s, st)
    \/ \E i \in 1..MaxId, st \in StepStatusValues : WorkerSetStep(i, st)
    \/ \E s \in StatusSlugs \cup {""} : GetStatus(s)
    \/ \E s \in StatusSlugs \cup {""} : Stop(s)

SpecStatus == Init /\ [][NextStatus]_vars

-----------------------------------------------------------------------------
(* Specification of the content handlers under a single writer: saves,     *)
(* book deletion and pipeline-history removal run one at a time, with the  *)
(* worker adding ProcessingStep rows and sub-story pages in between.       *)

Section(n, d, img) ==
    [page_number |-> n, dialogue |-> d, illustration_prompt |-> "prompt", illustration_image |-> img]

ChapterInput(t, r, secs, subs) ==
    [title |-> t, narration_version |-> "narration", reading |-> r,
     sections |-> secs, sub_stories |-> subs]

SubStoryInput(n, c, secs) ==
    [sub_story_number |-> n, title |-> "mini", content |-> c, sections |-> secs]

SeqsUpTo(S, n) == UNION {[1..k -> S] : k \in 0..n}

SaveData(title, chapterList) ==
    [book_title |-> title, has_chapter_count |-> title # Undef,
     chapter_count |-> IF title # Undef THEN Len(chapterList) ELSE 0,
     chapters |-> chapterList]

\* the payloads of the editing client: a book without chapters, a book with
\* one chapter of flat sections, a book with one chapter of one sub-story
EmptyBook == SaveData(Undef, <<>>)

FlatBook == SaveData("T1", <<ChapterInput("A", "sections", <<Section(1, "d1", UrlImage)>>, <<>>)>>)

SubStoryBook ==
    SaveData("T1", <<ChapterInput("A", "sub_stories", <<>>,
                                  <<SubStoryInput(1, "c1", <<Section(1, "d1", KeyImage)>>)>>)>>)

ContentSaveInputs == {EmptyBook, FlatBook, SubStoryBook}

Next ==
    \/ \E s \in Slugs, d \in ContentSaveInputs : Save(s, d)
    \/ \E s \in Slugs : DeleteBook(s)
    \/ \E s \in Slugs : RemoveHistory(s)
    \/ \E s \in Slugs, st \in {"in_progress", "completed"} : WorkerAddStep(s, st)
    \/ \E i \in 1..MaxId : WorkerAddSubStoryPage(i, 1)

Spec == Init /\ [][Next]_vars

-----------------------------------------------------------------------------
(* Specification of the write path for one book under a single writer:     *)
(* saves of chapter lists in any order and of any subset, one request at a *)
(* time.                                                                   *)

\* Longest chapter list of one save request.
MaxChapters == 2

UpsertSlugs == {"Tiny_Tales"}

ChapterTitles == {"A", "B"}

UpsertChapterInputs ==
    {ChapterInput(t, "none", <<>>, <<>>) : t \in ChapterTitles}
    \cup {ChapterInput(t, "sections", <<Section(1, "d2", KeyImage), Section(2, "d1", "")>>, <<>>) :
             t \in ChapterTitles}
    \cup {ChapterInput(t, "sub_stories", <<>>,
                       <<SubStoryInput(1, "c1", <<Section(1, "d1", KeyImage)>>)>>) : t \in ChapterTitles}

\* every chapter list up to the bound, and a save of the title alone
UpsertSaveInputs ==
    {SaveData(Undef, cs) : cs \in SeqsUpTo(UpsertChapterInputs, MaxChapters)}
    \cup {SaveData("T2", <<>>)}

NextUpsert ==
    \E s \in UpsertSlugs, d \in UpsertSaveInputs : Save(s, d)

SpecUpsert == Init /\ [][NextUpsert]_vars

-----------------------------------------------------------------------------
(* Specification of concurrent saves: two PUT requests for the same slug,  *)
(* each carrying one chapter with one flat section and no book metadata,   *)
(* interleaved at the store calls they await.  A query that matches more   *)
(* than one row returns them in document order, which the store does not   *)
(* tie to creation order: the row a lookup picks among equals is any one.  *)

RaceSlugs == {"Tiny_Tales"}

RaceTitle == "A"

RacePage == 1

\* the request enters the handler and reads its parameters and body
PutStart(p, safeTitle) ==
    /\ pc[p] = "idle"
    /\ pc' = [pc EXCEPT ![p] = "getBook"]
    /\ loc' = [loc EXCEPT ![p] = [IdleLoc EXCEPT !.slug = safeTitle, !.title = RaceTitle,
                                                 !.page = RacePage]]
    /\ UNCHANGED <<contentVars, steps, snapshots, nextId, resp, pubsubVars, pollVars>>

\* let book = await firestore.getBookBySafeTitle(safeTitle)
PutGetBook(p) ==
    /\ pc[p] = "getBook"
    /\ IF ~HasBook(loc[p].slug)
       THEN /\ pc' = [pc EXCEPT ![p] = "upsertBook"]
            /\ loc' = loc
       ELSE \E b \in BooksBySafeTitle(loc[p].slug) :
               /\ pc' = [pc EXCEPT ![p] = "getChapters"]
               /\ loc' = [loc EXCEPT ![p].bookId = b.id]
    /\ UNCHANGED <<contentVars, steps, snapshots, nextId, resp, pubsubVars, pollVars>>

\* upsertBook: const existingBook = await this.getBookBySafeTitle(safeTitle)
PutUpsertBookLookup(p) ==
    /\ pc[p] = "upsertBook"
    /\ IF ~HasBook(loc[p].slug)
       THEN /\ pc' = [pc EXCEPT ![p] = "bookCreate"]
            /\ loc' = loc
       ELSE \E b \in BooksBySafeTitle(loc[p].slug) :
               /\ pc' = [pc EXCEPT ![p] = "bookUpdate"]
               /\ loc' = [loc EXCEPT ![p].found = b.id]
    /\ UNCHANGED <<contentVars, steps, snapshots, nextId, resp, pubsubVars, pollVars>>

\* upsertBook: the branch chosen by the lookup, createBook or updateBook
PutBookWrite(p) ==
    /\ pc[p] \in {"bookCreate", "bookUpdate"}
    /\ LET bookData == [title |-> UnderscoresToSpaces(loc[p].slug), safe_title |-> loc[p].slug,
                        chapter_count |-> 1, status |-> "pending"]
       IN  IF pc[p] = "bookCreate"
           THEN /\ nextId <= MaxId
                /\ books' = createBook(Store, bookData).books
                /\ nextId' = nextId + 1
                /\ loc' = [loc EXCEPT ![p].bookId = nextId]
           ELSE /\ books' = updateBook(Store, loc[p].found, bookData).books
                /\ nextId' = nextId
                /\ loc' = [loc EXCEPT ![p].bookId = loc[p].found]
    /\ pc' = [pc EXCEPT ![p] = "getChapters"]
    /\ UNCHANGED <<chapters, subStories, pages, steps, snapshots, resp, pubsubVars, pollVars>>

\* upsertChapter: getChaptersByBookId, chapters.find, chapters.length
PutChapterLookup(p) ==
    /\ pc[p] = "getChapters"
    /\ LET rows == {c \in chapters : c.book_id = loc[p].bookId}
           m == {c \in rows : c.title = loc[p].title}
           first == {c \in m : \A o \in m : c.order_index <= o.order_index}
       IN  IF m = {}
           THEN /\ pc' = [pc EXCEPT ![p] = "chapterCreate"]
                /\ loc' = [loc EXCEPT ![p].count = Cardinality(rows)]
           ELSE \E c \in first :
                   /\ pc' = [pc EXCEPT ![p] = "chapterUpdate"]
                   /\ loc' = [loc EXCEPT ![p].found = c.id, ![p].count = Cardinality(rows)]
    /\ UNCHANGED <<contentVars, steps, snapshots, nextId, resp, pubsubVars, pollVars>>

\* upsertChapter: the branch chosen by the lookup, createChapter or updateChapter
PutChapterWrite(p) ==
    /\ pc[p] \in {"chapterCreate", "chapterUpdate"}
    /\ IF pc[p] = "chapterCreate"
       THEN /\ nextId <= MaxId
            /\ chapters' = createChapter(Store, [book_id |-> loc[p].bookId,
                                                 title |-> loc[p].title,
                                                 order_index |-> loc[p].count,
                                                 narration_version |-> "narration"]).chapters
            /\ nextId' = nextId + 1
            /\ loc' = [loc EXCEPT ![p].chapterId = nextId]
       ELSE /\ chapters' = updateChapter(Store, loc[p].found,
                                         [title |-> loc[p].title, order_index |-> 0,
                                          narration_version |-> "narration"]).chapters
            /\ nextId' = nextId
            /\ loc' = [loc EXCEPT ![p].chapterId = loc[p].found]
    /\ pc' = [pc EXCEPT ![p] = "getPages"]
    /\ UNCHANGED <<books, subStories, pages, steps, snapshots, resp, pubsubVars, pollVars>>

\* upsertPage: getPagesByChapterId, pages.find
PutPageLookup(p) ==
    /\ pc[p] = "getPages"
    /\ LET m == {x \in pages : x.chapter_id = loc[p].chapterId /\ x.page_number = loc[p].page}
       IN  IF m = {}
           THEN /\ pc' = [pc EXCEPT ![p] = "pageCreate"]
                /\ loc' = loc
           ELSE \E x \in m :
                   /\ pc' = [pc EXCEPT ![p] = "pageUpdate"]
                   /\ loc' = [loc EXCEPT ![p].found = x.id]
    /\ UNCHANGED <<contentVars, steps, snapshots, nextId, resp, pubsubVars, pollVars>>

\* upsertPage: the branch chosen by the lookup, then the handler's response
PutPageWrite(p) ==
    /\ pc[p] \in {"pageCreate", "pageUpdate"}
    /\ LET pageData == [sectionPageData(Section(loc[p].page, "d1", KeyImage)) EXCEPT
                          !.chapter_id = loc[p].chapterId, !.page_number = loc[p].page]
       IN  IF pc[p] = "pageCreate"
           THEN /\ nextId <= MaxId
                /\ pages' = createPage(Store, pageData).pages
                /\ nextId' = nextId + 1
           ELSE /\ pages' = updatePage(Store, loc[p].found, pageData).pages
                /\ nextId' = nextId
    /\ pc' = [pc EXCEPT ![p] = "idle"]
    /\ loc' = [loc EXCEPT ![p] = IdleLoc]
    /\ resp' = Response("save", 200, loc[p].slug)
    /\ UNCHANGED <<books, chapters, subStories, steps, snapshots, pubsubVars, pollVars>>

NextRace ==
    \/ \E p \in Procs, s \in RaceSlugs : PutStart(p, s)
    \/ \E p \in Procs : PutGetBook(p)
    \/ \E p \in Procs : PutUpsertBookLookup(p)
    \/ \E p \in Procs : PutBookWrite(p)
    \/ \E p \in Procs : PutChapterLookup(p)
    \/ \E p \in Procs : PutChapterWrite(p)
    \/ \E p \in Procs : PutPageLookup(p)
    \/ \E p \in Procs : PutPageWrite(p)

SpecRace == Init /\ [][NextRace]_vars

-----------------------------------------------------------------------------
(* Specification of the flat-section round trip: saves of one chapter with *)
(* flat sections, reads through the resolver, book deletion.               *)

RoundTripSlugs == {"Tiny_Tales"}

RoundTripSections ==
    {Section(n, d, img) : n \in {1, 2}, d \in {"d1", "d2"}, img \in {UrlImage, KeyImage, ""}}

\* section lists with distinct page numbers, in page order
RoundTripSectionLists ==
    {<<a>> : a \in RoundTripSections}
    \cup {<<a, b>> : a \in {x \in RoundTripSections : x.page_number = 1},
                     b \in {x \in RoundTripSections : x.page_number = 2}}

RoundTripInputs ==
    {SaveData(Undef, <<ChapterInput("A", "sections", secs, <<>>)>>) : secs \in RoundTripSectionLists}

NextRoundTrip ==
    \/ \E s \in RoundTripSlugs, d \in RoundTripInputs : Save(s, d)
    \/ \E s \in RoundTripSlugs : ReadBook(s)
    \/ \E s \in RoundTripSlugs : DeleteBook(s)

SpecRoundTrip == Init /\ [][NextRoundTrip]_vars

-----------------------------------------------------------------------------
(* Specification of the sub-stories round trip: saves of one chapter with  *)
(* one or two sub-stories of one page each, reads through the resolver,    *)
(* book deletion.                                                          *)

SubStoryContents == {"", "c1", "c2"}

\* sub-story n carries page n, so page numbers are distinct within the chapter
RoundTripSubStories ==
    {SubStoryInput(n, c, <<Section(n, d, img)>>) :
        n \in {1, 2}, c \in SubStoryContents, d \in {"d1"}, img \in {UrlImage, KeyImage}}

RoundTripSubStoryLists ==
    {<<a>> : a \in RoundTripSubStories}
    \cup {<<a, b>> : a \in {x \in RoundTripSubStories : x.sub_story_number = 1},
                     b \in {x \in RoundTripSubStories : x.sub_story_number = 2}}

RoundTripSubInputs ==
    {SaveData(Undef, <<ChapterInput("A", "sub_stories", <<>>, subs)>>) :
        subs \in RoundTripSubStoryLists}

NextRoundTripSub ==
    \/ \E s \in RoundTripSlugs, d \in RoundTripSubInputs : Save(s, d)
    \/ \E s \in RoundTripSlugs : ReadBook(s)
    \/ \E s \in RoundTripSlugs : DeleteBook(s)

SpecRoundTripSub == Init /\ [][NextRoundTripSub]_vars

-----------------------------------------------------------------------------
(* Specification of the resolver: saves, reads and deletions of one book   *)
(* while the worker writes snapshots for it.                               *)

ResolverSlugs == {"Tiny_Tales"}

\* a section of a snapshot document
SnapshotSection(n, d, url, key) ==
    [page_number |-> n, illustration_prompt |-> "prompt", dialogue |-> d,
     image_url |-> url, image_gcs_key |-> key]

\* chapters_final.json documents: flat sections, and sub-stories
FlatSnapshot ==
    [exists |-> TRUE, book_title |-> "Snap", chapter_count |-> 1,
     chapters |-> <<ChapterInput("A", "sections",
                                 <<SnapshotSection(1, "snap", Undef, KeyImage)>>, <<>>)>>]

SubStorySnapshot ==
    [exists |-> TRUE, book_title |-> Undef, chapter_count |-> 1,
     chapters |-> <<ChapterInput("S", "sub_stories", <<>>,
                                 <<SubStoryInput(1, "snapc",
                                                 <<SnapshotSection(1, "snap", UrlImage, Undef)>>)>>)>>]

SnapshotDocs == {FlatSnapshot, SubStorySnapshot}

NextResolver ==
    \/ \E s \in ResolverSlugs, d \in ContentSaveInputs : Save(s, d)
    \/ \E s \in ResolverSlugs : ReadBook(s)
    \/ \E s \in ResolverSlugs : DeleteBook(s)
    \/ \E s \in ResolverSlugs, doc \in SnapshotDocs : WorkerWriteSnapshot(s, doc)
    \/ \E i \in 1..MaxId : WorkerAddSubStoryPage(i, 1)

SpecResolver == Init /\ [][NextResolver]_vars

-----------------------------------------------------------------------------
(* Specification of saves under store faults: saves of one book while the  *)
(* store rejects some page upserts and some sub-story upserts.             *)

FaultSlugs == {"Tiny_Tales"}

FaultPageNumbers == {1, 2}

FaultSubStoryNumbers == {1, 2}

\* two chapters of flat sections
FaultFlatBook ==
    SaveData(Undef, <<ChapterInput("A", "sections",
                                   <<Section(1, "d1", KeyImage), Section(2, "d2", "")>>, <<>>),
                      ChapterInput("B", "sections", <<Section(1, "d3", UrlImage)>>, <<>>)>>)

\* one chapter of two sub-stories, the second with a page
FaultSubStoryBook ==
    SaveData(Undef, <<ChapterInput("A", "sub_stories", <<>>,
                                   <<SubStoryInput(1, "c1", <<Section(1, "d1", KeyImage)>>),
                                     SubStoryInput(2, "c2", <<Section(2, "d2", "")>>)>>)>>)

\* a chapter of one sub-story, then a chapter of another
FaultTwoChapterBook ==
    SaveData(Undef, <<ChapterInput("A", "sub_stories", <<>>,
                                   <<SubStoryInput(1, "c1", <<Section(1, "d1", KeyImage)>>)>>),
                      ChapterInput("B", "sub_stories", <<>>,
                                   <<SubStoryInput(2, "c2", <<>>)>>)>>)

\* the same chapters with other dialogue and content, for saves over existing rows
FaultFlatBookEdited ==
    SaveData(Undef, <<ChapterInput("A", "sections",
                                   <<Section(1, "d2", KeyImage), Section(2, "d1", "")>>, <<>>),
                      ChapterInput("B", "sections", <<Section(1, "d1", UrlImage)>>, <<>>)>>)

FaultSaveInputs == {FaultFlatBook, FaultSubStoryBook, FaultTwoChapterBook, FaultFlatBookEdited}

NextFaults ==
    \/ \E s \in FaultSlugs, d \in FaultSaveInputs,
          fp \in SUBSET FaultPageNumbers, fs \in SUBSET FaultSubStoryNumbers :
          SaveWithFaults(s, d, fp, fs)
    \/ \E s \in FaultSlugs : DeleteBook(s)

SpecFaults == Init /\ [][NextFaults]_vars

-----------------------------------------------------------------------------
(* Specification of the trigger endpoint: requests of every action, with   *)
(* and without a chapter, while the topic comes and goes and the service   *)
(* rejects publish calls.                                                  *)

TriggerSlugs == {"Tiny_Tales", ""}

TriggerActions == {"content", "illustrations", "both"}

TriggerChapters == {Undef, "A"}

\* no call rejected, the first, the second
PublishFaults == {0, 1, 2}

NextTrigger ==
    \/ \E s \in TriggerSlugs, a \in TriggerActions, c \in TriggerChapters,
          hp \in BOOLEAN, f \in PublishFaults : Trigger(s, a, c, hp, f)
    \/ \E e \in BOOLEAN : SetTopicExists(e)

SpecTrigger == Init /\ [][NextTrigger]_vars

-----------------------------------------------------------------------------
(* Specification of the polling views: one book that the worker creates    *)
(* and moves through its statuses, while the management page or the run    *)
(* page is opened, triggers the pipeline, receives ticks and is closed.    *)

PollSlugs == {"Tiny_Tales"}

PollStatuses == {"pending", "processing", "completed"}

\* the two buttons of a book on the management page
ManagementActions == {"content", "illustrations"}

RunActions == {"content", "both"}

\* no publish call rejected, the first
PollFaults == {0, 1}

NextPoll ==
    \/ \E s \in PollSlugs, st \in PollStatuses : WorkerCreateBook(s, st)
    \/ \E s \in PollSlugs, st \in PollStatuses : WorkerSetBookStatus(s, st)
    \/ MountManagement
    \/ MountRun
    \/ \E handle \in 1..MaxTimers : TimerFires(handle)
    \/ \E s \in PollSlugs, a \in ManagementActions, f \in PollFaults :
          TriggerFromManagement(s, a, f)
    \/ \E s \in PollSlugs, a \in RunActions, f \in PollFaults :
          SubmitFromRun(s, a, Undef, f)
    \/ Unmount

SpecPoll == Init /\ [][NextPoll]_vars

-----------------------------------------------------------------------------
(* Specification of requests for absent books: two slugs whose books come  *)
(* and go, with chapters, pages and steps, while status, stop, history     *)
(* removal and deletion are requested for either slug.                     *)

AbsentSlugs == {"Tiny_Tales", "Moby_Dick"}

NextAbsent ==
    \/ WorkerCreateBook("Moby_Dick", "processing")
    \/ \E s \in AbsentSlugs : WorkerAddStep(s, "in_progress")
    \/ Save("Tiny_Tales", FlatBook)
    \/ \E s \in AbsentSlugs : GetStatus(s)
    \/ \E s \in AbsentSlugs : Stop(s)
    \/ \E s \in AbsentSlugs : RemoveHistory(s)
    \/ \E s \in AbsentSlugs : DeleteBook(s)

SpecAbsent == Init /\ [][NextAbsent]_vars

-----------------------------------------------------------------------------
(* Specification of saves that edit the title: two slugs, one of which is  *)
(* spelled like a title the client sends, saved with and without a title   *)
(* and with and without a chapter, and deleted.                            *)

TitleSlugs == {"Tiny_Tales", "T1"}

Retitle == SaveData("T2", <<>>)

UntitledBook ==
    SaveData(Undef, <<ChapterInput("B", "sections", <<Section(1, "d1", UrlImage)>>, <<>>)>>)

TitleSaveInputs == {FlatBook, Retitle, UntitledBook}

NextTitle ==
    \/ \E s \in TitleSlugs, d \in TitleSaveInputs : Save(s, d)
    \/ \E s \in TitleSlugs : DeleteBook(s)

SpecTitle == Init /\ [][NextTitle]_vars

-----------------------------------------------------------------------------
(* Specification of the shape of the resolver's result: one book saved     *)
(* with flat sections and with sub-stories, the worker storing page images *)
(* by URL, by key, by both or by neither, snapshots of both formats, and   *)
(* reads during which the sub_stories query of one chapter is rejected.    *)

ShapeSlugs == {"Tiny_Tales"}

ShapeFlatSnapshot ==
    [exists |-> TRUE, book_title |-> "Snap", chapter_count |-> 1,
     chapters |-> <<ChapterInput("A", "sections",
                                 <<SnapshotSection(1, "both", UrlImage, KeyImage),
                                   SnapshotSection(2, "key", "", KeyImage),
                                   SnapshotSection(3, "none", Undef, Undef)>>, <<>>)>>]

ShapeSnapshots == {ShapeFlatSnapshot, SubStorySnapshot}

ShapeUrls == {Undef, "", UrlImage}

ShapeKeys == {Undef, KeyImage}

\* no query rejected (0), or the one of chapter c
FailReads(c) == IF c = 0 THEN {} ELSE {c}

NextShape ==
    \/ \E s \in ShapeSlugs, d \in {FlatBook, SubStoryBook} : Save(s, d)
    \/ \E i \in 1..MaxId : WorkerAddSubStoryPage(i, 1)
    \/ \E i \in 1..MaxId, url \in ShapeUrls, key \in ShapeKeys : WorkerSetPageImage(i, url, key)
    \/ \E s \in ShapeSlugs, doc \in ShapeSnapshots : WorkerWriteSnapshot(s, doc)
    \/ \E s \in ShapeSlugs, c \in 0..MaxId : ReadBookWithFaults(s, FailReads(c))
    \/ \E s \in ShapeSlugs : DeleteBook(s)

SpecShape == Init /\ [][NextShape]_vars

-----------------------------------------------------------------------------
(* Specification of saves of sub-stories whose pages are numbered within   *)
(* the sub-story: one chapter with one or two sub-stories of one page      *)
(* each, numbered 1 or 2, reads through the resolver and book deletion.    *)

OwnSlugs == {"Tiny_Tales"}

OwnSubStories ==
    {SubStoryInput(n, "c1", <<Section(p, d, UrlImage)>>) :
        n \in {1, 2}, p \in {1, 2}, d \in {"d1", "d2"}}

OwnSubStoryLists ==
    {<<a>> : a \in OwnSubStories}
    \cup {<<a, b>> : a \in {x \in OwnSubStories : x.sub_story_number = 1},
                     b \in {x \in OwnSubStories : x.sub_story_number = 2}}

OwnSaveInputs ==
    {SaveData(Undef, <<ChapterInput("A", "sub_stories", <<>>, subs)>>) :
        subs \in OwnSubStoryLists}

NextOwn ==
    \/ \E s \in OwnSlugs, d \in OwnSaveInputs : Save(s, d)
    \/ \E s \in OwnSlugs : ReadBook(s)
    \/ \E s \in OwnSlugs : DeleteBook(s)

SpecOwn == Init /\ [][NextOwn]_vars

-----------------------------------------------------------------------------
(* Specification of the deletion cascade: DELETE /api/books/[filename]     *)
(* taken one store write at a time, and abandoned at any of them when the  *)
(* server process dies.  Saves and the worker's step writes run between    *)
(* cascades.                                                               *)

CascadeSlugs == {"Tiny_Tales"}

CascadeProcs == {1}

CascadeSaveInputs == {FlatBook, FaultFlatBookEdited}

\* Variant: the Book row is deleted before its steps, pages and chapters.
afterStageBookFirst(stage) ==
    CASE stage = "start" -> "delBook"
      [] stage = "delBook" -> "delSteps"
      [] stage = "delSteps" -> "delChapterList"
      [] stage = "delChapterList" -> "delChapters"
      [] stage = "delChapters" -> "done"

\* deleteBook: the store call that follows a call; delChapterList and
\* delChapters are the read and the writes of deleteChaptersByBookId
afterStage(stage) ==
    CASE stage = "start" -> "delSteps"
      [] stage = "delSteps" -> "delChapterList"
      [] stage = "delChapterList" -> "delChapters"
      [] stage = "delChapters" -> "delBook"
      [] stage = "delBook" -> "done"

\* the handler's and deleteBook's getBookBySafeTitle
DelStart(p, safeTitle) ==
    /\ pc[p] = "idle"
    /\ IF ~HasBook(safeTitle)
       THEN /\ resp' = Response("delete", 404, safeTitle)
            /\ UNCHANGED <<pc, loc>>
       ELSE /\ pc' = [pc EXCEPT ![p] = afterStage("start")]
            /\ loc' = [loc EXCEPT ![p] = [IdleLoc EXCEPT
                                            !.slug = safeTitle,
                                            !.bookId = getBookBySafeTitle(safeTitle).id]]
            /\ resp' = resp
    /\ UNCHANGED <<contentVars, steps, snapshots, nextId, pubsubVars, pollVars>>

\* the cascade moves on after a call; after the last one the handler deletes
\* the blobs under books/<safeTitle>/ when a bucket is configured and the
\* deletion succeeds, and answers 200
DelAdvance(p, stage, locals) ==
    IF afterStage(stage) = "done"
    THEN /\ pc' = [pc EXCEPT ![p] = "idle"]
         /\ loc' = [loc EXCEPT ![p] = IdleLoc]
         /\ \/ snapshots' = snapshots
            \/ snapshots' = [snapshots EXCEPT ![loc[p].slug] = NoSnapshot]
         /\ resp' = Response("delete", 200, loc[p].slug)
    ELSE /\ pc' = [pc EXCEPT ![p] = afterStage(stage)]
         /\ loc' = [loc EXCEPT ![p] = locals]
         /\ UNCHANGED <<snapshots, resp>>

\* deleteProcessingStepsByBookId: the batch commit
DelSteps(p) ==
    /\ pc[p] = "delSteps"
    /\ steps' = deleteProcessingStepsByBookId(loc[p].bookId)
    /\ DelAdvance(p, "delSteps", loc[p])
    /\ UNCHANGED <<contentVars, nextId, pubsubVars, pollVars>>

\* deleteChaptersByBookId: const chapters = await this.getChaptersByBookId(bookId)
DelChapterList(p) ==
    /\ pc[p] = "delChapterList"
    /\ LET rows == chaptersOf(Store, loc[p].bookId)
       IN  DelAdvance(p, "delChapterList",
                      [loc[p] EXCEPT !.chapterIds = [i \in 1..Len(rows) |-> rows[i].id],
                                     !.count = 0])
    /\ UNCHANGED <<contentVars, steps, nextId, pubsubVars, pollVars>>

\* the loop body for the next chapter: deletePagesByChapterId commits its
\* batch, the chapter's deletion is queued
DelPages(p) ==
    /\ pc[p] = "delChapters"
    /\ loc[p].count < Len(loc[p].chapterIds)
    /\ pages' = deletePagesOfChapters({loc[p].chapterIds[loc[p].count + 1]})
    /\ loc' = [loc EXCEPT ![p].count = @ + 1]
    /\ UNCHANGED <<books, chapters, subStories, steps, snapshots, nextId, resp, pc,
                   pubsubVars, pollVars>>

\* after the loop: the batch of chapter deletions is committed
DelChapters(p) ==
    /\ pc[p] = "delChapters"
    /\ loc[p].count = Len(loc[p].chapterIds)
    /\ chapters' = {c \in chapters : \A i \in 1..Len(loc[p].chapterIds) :
                                        c.id # loc[p].chapterIds[i]}
    /\ DelAdvance(p, "delChapters", loc[p])
    /\ UNCHANGED <<books, subStories, pages, steps, nextId, pubsubVars, pollVars>>

\* this.db.collection(this.booksCollection).doc(book.id).delete()
DelBookRow(p) ==
    /\ pc[p] = "delBook"
    /\ books' = {b \in books : b.id # loc[p].bookId}
    /\ DelAdvance(p, "delBook", loc[p])
    /\ UNCHANGED <<chapters, subStories, pages, steps, nextId, pubsubVars, pollVars>>

\* the server process dies during the cascade: nothing more is written
DelCrash(p) ==
    /\ pc[p] \in {"delSteps", "delChapterList", "delChapters", "delBook"}
    /\ pc' = [pc EXCEPT ![p] = "idle"]
    /\ loc' = [loc EXCEPT ![p] = IdleLoc]
    /\ UNCHANGED <<contentVars, steps, snapshots, nextId, resp, pubsubVars, pollVars>>

NoCascade == \A p \in CascadeProcs : pc[p] = "idle"

\* a save while no cascade is running
SaveBetweenCascades(safeTitle, data) == NoCascade /\ Save(safeTitle, data)

\* a step written by the worker while no cascade is running
AddStepBetweenCascades(safeTitle) == NoCascade /\ WorkerAddStep(safeTitle, "in_progress")

NextCascade ==
    \/ \E s \in CascadeSlugs, d \in CascadeSaveInputs : SaveBetweenCascades(s, d)
    \/ \E s \in CascadeSlugs : AddStepBetweenCascades(s)
    \/ \E p \in CascadeProcs, s \in CascadeSlugs : DelStart(p, s)
    \/ \E p \in CascadeProcs : DelSteps(p)
    \/ \E p \in CascadeProcs : DelChapterList(p)
    \/ \E p \in CascadeProcs : DelPages(p)
    \/ \E p \in CascadeProcs : DelChapters(p)
    \/ \E p \in CascadeProcs : DelBookRow(p)
    \/ \E p \in CascadeProcs : DelCrash(p)

SpecCascade == Init /\ [][NextCascade]_vars

-----------------------------------------------------------------------------
(* Specification of stop against the worker: POST /api/pipeline/stop taken *)
(* one store call at a time, while the worker adds steps and sets their    *)
(* status between the calls.                                               *)

StopRaceSlugs == {"Tiny_Tales"}

StopRaceProcs == {1}

WorkerStepStatuses == {"in_progress", "completed", "failed"}

\* const book = await firestore.getBookBySafeTitle(bookSafeTitle)
StopStart(p, bookSafeTitle) ==
    /\ pc[p] = "idle"
    /\ IF ~HasBook(bookSafeTitle)
       THEN /\ resp' = Response("stop", 404, bookSafeTitle)
            /\ UNCHANGED <<pc, loc>>
       ELSE /\ pc' = [pc EXCEPT ![p] = "stopUpdateBook"]
            /\ loc' = [loc EXCEPT ![p] = [IdleLoc EXCEPT
                                            !.slug = bookSafeTitle,
                                            !.bookId = getBookBySafeTitle(bookSafeTitle).id]]
            /\ resp' = resp
    /\ UNCHANGED <<contentVars, steps, snapshots, nextId, pubsubVars, pollVars>>

\* await firestore.updateBook(book.id, { status: 'cancelled' })
StopUpdateBook(p) ==
    /\ pc[p] = "stopUpdateBook"
    /\ books' = updateBookStatus(loc[p].bookId, "cancelled")
    /\ pc' = [pc EXCEPT ![p] = "stopReadSteps"]
    /\ UNCHANGED <<chapters, subStories, pages, steps, snapshots, nextId, resp, loc,
                   pubsubVars, pollVars>>

\* cancelProcessingStepsByBookId: the read of the steps and the filter
StopReadSteps(p) ==
    /\ pc[p] = "stopReadSteps"
    /\ loc' = [loc EXCEPT ![p].stepIds = {x.id : x \in inProgressSteps(loc[p].bookId)}]
    /\ pc' = [pc EXCEPT ![p] = "stopCommit"]
    /\ UNCHANGED <<contentVars, steps, snapshots, nextId, resp, pubsubVars, pollVars>>

\* cancelProcessingStepsByBookId: batch.commit() of the updates queued for
\* the steps the read selected, and the handler's response
StopCommit(p) ==
    /\ pc[p] = "stopCommit"
    /\ steps' = {IF x.id \in loc[p].stepIds
                    THEN [x EXCEPT !.status = "cancelled", !.error_message = CancelMessage]
                    ELSE x : x \in steps}
    /\ resp' = [Response("stop", 200, loc[p].slug) EXCEPT
                  !.cancelledSteps = Cardinality(loc[p].stepIds)]
    /\ pc' = [pc EXCEPT ![p] = "idle"]
    /\ loc' = [loc EXCEPT ![p] = IdleLoc]
    /\ UNCHANGED <<contentVars, snapshots, nextId, pubsubVars, pollVars>>

NextStopRace ==
    \/ \E s \in StopRaceSlugs : WorkerCreateBook(s, "processing")
    \/ \E s \in StopRaceSlugs : WorkerAddStep(s, "in_progress")
    \/ \E i \in 1..MaxId, st \in WorkerStepStatuses : WorkerSetStep(i, st)
    \/ \E p \in StopRaceProcs, s \in StopRaceSlugs : StopStart(p, s)
    \/ \E p \in StopRaceProcs : StopUpdateBook(p)
    \/ \E p \in StopRaceProcs : StopReadSteps(p)
    \/ \E p \in StopRaceProcs : StopCommit(p)

SpecStopRace == Init /\ [][NextStopRace]_vars

-----------------------------------------------------------------------------
(* Specification of a stopped book under the management page: the worker   *)
(* creates one book and its steps, the pipeline is stopped, and the status *)
(* is read by requests and by the ticks of the management page's timers.   *)

CancelledSlugs == {"Tiny_Tales"}

\* the book statuses the worker writes before the stop
CancelledBookStatuses == {"pending", "processing"}

NextCancelled ==
    \/ \E s \in CancelledSlugs, st \in CancelledBookStatuses : WorkerCreateBook(s, st)
    \/ \E s \in CancelledSlugs, st \in WorkerStepStatuses : WorkerAddStep(s, st)
    \/ \E s \in CancelledSlugs : Stop(s)
    \/ \E s \in CancelledSlugs : GetStatus(s)
    \/ MountManagement
    \/ \E handle \in 1..MaxTimers : TimerFires(handle)
    \/ Unmount

SpecCancelled == Init /\ [][NextCancelled]_vars

-----------------------------------------------------------------------------
(* Properties of the status and stop endpoints (SpecStatus) *)

StepsOfSlug(s) == {x \in steps : x.book_id = getBookBySafeTitle(s).id}

\* C1: whatever the steps are, a status request for a book whose status is
\* processing or in_progress answers processing / isProcessing = TRUE, for a
\* completed book completed / FALSE, for a failed book failed / FALSE.
C1_BookStatusPrecedence ==
    [][\A s \in StatusSlugs :
         (HasBook(s) /\ GetStatus(s)) =>
            LET st == getBookBySafeTitle(s).status
            IN  /\ st \in {"processing", "in_progress"} =>
                     (resp'.overallStatus = "processing" /\ resp'.isProcessing = TRUE)
                /\ st = "completed" =>
                     (resp'.overallStatus = "completed" /\ resp'.isProcessing = FALSE)
                /\ st = "failed" =>
                     (resp'.overallStatus = "failed" /\ resp'.isProcessing = FALSE)]_vars

\* A completed book was reported completed while one of its steps is failed
\* and another one is in progress.
C1_Witness ==
    /\ resp.op = "status" /\ resp.code = 200
    /\ resp.bookStatus = "completed" /\ resp.overallStatus = "completed"
    /\ HasBook(resp.slug)
    /\ getBookBySafeTitle(resp.slug).status = "completed"
    /\ \E x \in StepsOfSlug(resp.slug) : x.status = "failed"
    /\ \E x \in StepsOfSlug(resp.slug) : x.status = "in_progress"

ActiveSpellings == {"in_progress", "processing", "IN_PROGRESS", "PROCESSING"}

FailedSpellings == {"failed", "FAILED"}

CompletedSpellings == {"completed", "COMPLETED", "Completed"}

\* C2: when the book status is none of processing, in_progress, completed,
\* failed, the answer is decided by the set of step statuses alone (so not by
\* their order), ignoring letter case: any active -> processing/TRUE; else any
\* failed -> failed/FALSE; else some and all completed -> completed/FALSE; else
\* no step -> pending/FALSE; else processing/TRUE.
C2_StepFallback ==
    [][\A s \in StatusSlugs :
         (/\ HasBook(s)
          /\ getBookBySafeTitle(s).status \notin {"processing", "in_progress", "completed", "failed"}
          /\ GetStatus(s)) =>
            LET sts == {x.status : x \in StepsOfSlug(s)}
                expected ==
                    IF sts \cap ActiveSpellings # {} THEN <<"processing", TRUE>>
                    ELSE IF sts \cap FailedSpellings # {} THEN <<"failed", FALSE>>
                    ELSE IF sts # {} /\ sts \subseteq CompletedSpellings THEN <<"completed", FALSE>>
                    ELSE IF sts = {} THEN <<"pending", FALSE>>
                    ELSE <<"processing", TRUE>>
            IN  <<resp'.overallStatus, resp'.isProcessing>> = expected]_vars

\* The fallback reported failed for a book whose first step is completed and
\* whose later step is failed.
C2_Witness ==
    /\ resp.op = "status" /\ resp.code = 200
    /\ resp.branch = "failed" /\ resp.overallStatus = "failed"
    /\ HasBook(resp.slug)
    /\ \E x, y \in StepsOfSlug(resp.slug) :
          x.id < y.id /\ x.status = "completed" /\ y.status = "failed"

\* C3: a stop request on an existing book turns exactly the steps that were
\* in_progress or processing into cancelled with the fixed message, leaves every
\* other step row as it was, sets the book status to cancelled and returns the
\* number of steps that were active before the call.
C3_CancelOnlyActive ==
    [][\A s \in StatusSlugs :
         (HasBook(s) /\ Stop(s)) =>
            LET active == {x \in StepsOfSlug(s) : x.status \in {"in_progress", "processing"}}
            IN  /\ \A x \in active :
                      [x EXCEPT !.status = "cancelled",
                                !.error_message = "Pipeline stopped by user"] \in steps'
                /\ \A x \in steps \ active : x \in steps'
                /\ {x.id : x \in steps'} = {x.id : x \in steps}
                /\ Cardinality(steps') = Cardinality(steps)
                /\ \A b \in books' : b.safe_title = s => b.status = "cancelled"
                /\ resp'.code = 200
                /\ resp'.cancelledSteps = Cardinality(active)]_vars

\* A stop cancelled one step of a book that also has a completed step.
C3_Witness ==
    /\ resp.op = "stop" /\ resp.code = 200 /\ resp.cancelledSteps = 1
    /\ HasBook(resp.slug)
    /\ getBookBySafeTitle(resp.slug).status = "cancelled"
    /\ \E x \in StepsOfSlug(resp.slug) :
          x.status = "cancelled" /\ x.error_message = "Pipeline stopped by user"
    /\ \E x \in StepsOfSlug(resp.slug) : x.status = "completed"

\* The states of the stop-then-status scenario.
ScenarioBefore(s) ==
    /\ HasBook(s)
    /\ getBookBySafeTitle(s).status = Undef
    /\ Cardinality(StepsOfSlug(s)) = 1
    /\ \A x \in StepsOfSlug(s) : x.status = "in_progress"

ScenarioAfter(s) ==
    /\ HasBook(s)
    /\ getBookBySafeTitle(s).status = "cancelled"
    /\ Cardinality(StepsOfSlug(s)) = 1
    /\ \A x \in StepsOfSlug(s) : x.status = "cancelled"

\* C4: for a book without status and with one in_progress step, a status
\* request answers processing / TRUE; a stop request answers cancelledSteps = 1
\* and leaves the book cancelled with its one step cancelled; and in that state
\* a status request answers processing / TRUE through the mixed branch.
C4_StopThenStatus ==
    [][\A s \in StatusSlugs :
         /\ (ScenarioBefore(s) /\ GetStatus(s)) =>
               (resp'.overallStatus = "processing" /\ resp'.isProcessing = TRUE)
         /\ (ScenarioBefore(s) /\ Stop(s)) =>
               (resp'.cancelledSteps = 1 /\ ScenarioAfter(s)')
         /\ (ScenarioAfter(s) /\ GetStatus(s)) =>
               /\ resp'.overallStatus = "processing"
               /\ resp'.isProcessing = TRUE
               /\ resp'.branch = "mixed"
               /\ resp'.bookStatus = "cancelled"]_vars

\* The status request after the stop: answered processing through the mixed
\* branch, the one step still carrying the stop's message.
C4_Witness ==
    /\ resp.op = "status" /\ resp.branch = "mixed" /\ resp.isProcessing = TRUE
    /\ resp.bookStatus = "cancelled" /\ resp.stepCount = 1
    /\ ScenarioAfter(resp.slug)
    /\ \A x \in StepsOfSlug(resp.slug) : x.error_message = "Pipeline stopped by user"

-----------------------------------------------------------------------------
(* Properties of the content handlers (Spec, SpecUpsert) *)

\* C5: a remove-pipeline-history request on an existing book deletes every
\* ProcessingStep row of that book and nothing else: the Book, Chapter,
\* SubStory and Page collections and the steps of other books are unchanged.
C5_RemoveHistoryFrame ==
    [][\A s \in Slugs :
         (HasBook(s) /\ RemoveHistory(s)) =>
            /\ steps' = {x \in steps : x.book_id # getBookBySafeTitle(s).id}
            /\ books' = books
            /\ chapters' = chapters
            /\ subStories' = subStories
            /\ pages' = pages]_vars

\* After a removal on the first book: its chapter and page rows are there,
\* the step created last (for the first book) is gone, the other book's
\* earlier step is still there.
C5_Witness ==
    /\ resp.op = "remove" /\ resp.code = 200 /\ HasBook(resp.slug)
    /\ LET b == getBookBySafeTitle(resp.slug)
       IN  /\ \E c \in chapters : c.book_id = b.id /\ \E x \in pages : x.chapter_id = c.id
           /\ ~\E x \in steps : x.book_id = b.id
           /\ \E o \in books : o.id # b.id /\ \E x \in steps : x.book_id = o.id /\ x.id = nextId - 2
           /\ ~\E x \in steps : x.id = nextId - 1

\* C6 (as claimed): after a successful book deletion no Book row for the slug
\* and no Chapter, SubStory, Page or ProcessingStep row of that book is left.
C6_CascadeComplete ==
    [][\A s \in Slugs :
         (HasBook(s) /\ DeleteBook(s)) =>
            LET b == getBookBySafeTitle(s)
                chapterIds == {c.id : c \in {c \in chapters : c.book_id = b.id}}
                subStoryIds == {x.id : x \in {x \in subStories : x.chapter_id \in chapterIds}}
            IN  /\ ~\E o \in books' : o.id = b.id
                /\ ~\E c \in chapters' : c.book_id = b.id
                /\ ~\E x \in subStories' : x.chapter_id \in chapterIds
                /\ ~\E x \in pages' : x.chapter_id \in chapterIds \/ x.sub_story_id \in subStoryIds
                /\ ~\E x \in steps' : x.book_id = b.id]_vars

UniqueKeys(st) ==
    /\ \A a, b \in st.books : a.safe_title = b.safe_title => a = b
    /\ \A a, b \in st.chapters : (a.book_id = b.book_id /\ a.title = b.title) => a = b
    /\ \A a, b \in st.subStories :
          (a.chapter_id = b.chapter_id /\ a.sub_story_number = b.sub_story_number) => a = b
    /\ \A a, b \in st.pages :
          (a.chapter_id = b.chapter_id /\ a.sub_story_id = b.sub_story_id
             /\ a.page_number = b.page_number) => a = b

StoreIds(st) ==
    {x.id : x \in st.books} \cup {x.id : x \in st.chapters}
      \cup {x.id : x \in st.subStories} \cup {x.id : x \in st.pages}

\* the rows of a collection after a step that were not there before it
Created(before, after) == {n \in after : ~\E o \in before : o.id = n.id}

\* C7: under a single writer the store never holds two rows with the same
\* natural key (Book by safe_title, Chapter by (book_id, title), SubStory by
\* (chapter_id, sub_story_number), Page by (owner, page_number)); a save
\* creates a row only for a natural key that no row had, and every row that
\* was there keeps its identifier and its natural key.
C7_UpsertNoDuplicates ==
    [][resp'.op = "save" =>
         /\ UniqueKeys(Store)
         /\ UniqueKeys(Store')
         /\ \A n \in Created(books, books') :
               ~\E o \in books : o.safe_title = n.safe_title
         /\ \A n \in Created(chapters, chapters') :
               ~\E o \in chapters : o.book_id = n.book_id /\ o.title = n.title
         /\ \A n \in Created(subStories, subStories') :
               ~\E o \in subStories : /\ o.chapter_id = n.chapter_id
                                       /\ o.sub_story_number = n.sub_story_number
         /\ \A n \in Created(pages, pages') :
               ~\E o \in pages : /\ o.chapter_id = n.chapter_id
                                  /\ o.sub_story_id = n.sub_story_id
                                  /\ o.page_number = n.page_number
         /\ \A o \in books : \E n \in books' : n.id = o.id /\ n.safe_title = o.safe_title
         /\ \A o \in chapters :
               \E n \in chapters' : n.id = o.id /\ n.book_id = o.book_id /\ n.title = o.title
         /\ \A o \in subStories :
               \E n \in subStories' : /\ n.id = o.id /\ n.chapter_id = o.chapter_id
                                        /\ n.sub_story_number = o.sub_story_number
         /\ \A o \in pages :
               \E n \in pages' : /\ n.id = o.id /\ n.chapter_id = o.chapter_id
                                   /\ n.page_number = o.page_number
         /\ nextId' = nextId + Cardinality(StoreIds(Store') \ StoreIds(Store))]_vars

\* A book that was created by one save and retitled by a later one, with two
\* chapters, a sub-story and a page, and exactly one identifier used per row.
C7_Witness ==
    /\ resp.op = "save"
    /\ \E b \in books : b.title = "T2"
    /\ Cardinality(chapters) = 2
    /\ subStories # {}
    /\ pages # {}
    /\ nextId = Cardinality(StoreIds(Store)) + 1

\* C9 (as claimed): the order_index values of a book's chapters are pairwise
\* distinct and increase with creation order, and no save changes the
\* order_index of a chapter that already exists.
C9_OrderIndexStable ==
    [][/\ \A c \in chapters : \A n \in chapters' :
            n.id = c.id => n.order_index = c.order_index
       /\ \A a, b \in chapters' :
            (a.book_id = b.book_id /\ a.id < b.id) => a.order_index < b.order_index]_vars

-----------------------------------------------------------------------------
(* Properties of concurrent saves (SpecRace) *)

\* C8: an upsert's write follows the branch its own lookup chose and does
\* not look again.  A request that found no row for its natural key (slug;
\* chapter title within the book; page number within the chapter) inserts a
\* row whatever the store holds by then, and leaves the other request in the
\* branch it chose: when both lookups ran before either write, the first
\* write leaves the other request in its create branch and the second write
\* makes two rows with the same natural key.
C8_UpsertRace ==
    [][\A p \in Procs :
         LET slug == loc[p].slug
             bookId == loc[p].bookId
             title == loc[p].title
             chapterId == loc[p].chapterId
             page == loc[p].page
             others == Procs \ {p}
         IN  /\ (pc[p] = "bookCreate" /\ pc'[p] # pc[p]) =>
                  /\ Cardinality({b \in books' : b.safe_title = slug})
                       = Cardinality({b \in books : b.safe_title = slug}) + 1
                  /\ \A q \in others : pc'[q] = pc[q]
                  /\ (\E q \in others : pc[q] = "bookCreate" /\ loc[q].slug = slug
                                        /\ BooksBySafeTitle(slug) # {}) =>
                        Cardinality({b \in books' : b.safe_title = slug}) >= 2
             /\ (pc[p] = "chapterCreate" /\ pc'[p] # pc[p]) =>
                  /\ Cardinality({c \in chapters' : c.book_id = bookId /\ c.title = title})
                       = Cardinality({c \in chapters : c.book_id = bookId /\ c.title = title}) + 1
                  /\ \A q \in others : pc'[q] = pc[q]
             /\ (pc[p] = "pageCreate" /\ pc'[p] # pc[p]) =>
                  /\ Cardinality({x \in pages' : x.chapter_id = chapterId /\ x.page_number = page})
                       = Cardinality({x \in pages : x.chapter_id = chapterId
                                                    /\ x.page_number = page}) + 1
                  /\ \A q \in others : pc'[q] = pc[q]]_vars

\* Both requests are done; one book holds two chapter rows with the same
\* title, created with the same order_index, and one of them holds two page
\* rows with the same page number.
C8_Witness ==
    /\ \A p \in Procs : pc[p] = "idle"
    /\ resp.op = "save"
    /\ Cardinality(books) = 1
    /\ \E a, b \in chapters :
          /\ a.id # b.id /\ a.book_id = b.book_id /\ a.title = b.title
          /\ a.order_index = b.order_index
    /\ \E x, y \in pages :
          x.id # y.id /\ x.chapter_id = y.chapter_id /\ x.page_number = y.page_number

-----------------------------------------------------------------------------
(* Properties of the flat-section round trip (SpecRoundTrip) *)

\* the sections the resolver returns for the chapter of that title
ReadBack(safeTitle, title) ==
    LET result == getBookWithChaptersAndPages(safeTitle).data.chapters
        i == CHOOSE i \in 1..Len(result) : result[i].title = title
    IN  result[i].sections

Range(f) == {f[i] : i \in DOMAIN f}

\* C10 (as claimed): with no snapshot for the slug, every section written by
\* a save of flat sections is read back through the entity-graph path with
\* the same page_number, dialogue, illustration_prompt and
\* illustration_image, whatever rows the store held for those pages before.
C10_RoundTripFlat ==
    [][\A s \in RoundTripSlugs, d \in RoundTripInputs :
         (~loadBookJSON(s).exists /\ Save(s, d)) =>
            /\ getBookWithChaptersAndPages(s)'.source = "store"
            /\ \A w \in Range(d.chapters[1].sections) :
                  {r \in Range(ReadBack(s, d.chapters[1].title)') :
                      r.page_number = w.page_number} = {w}]_vars

\* the sub-stories the resolver returns for the chapter of that title
ReadBackSubStories(safeTitle, title) ==
    LET result == getBookWithChaptersAndPages(safeTitle).data.chapters
        i == CHOOSE i \in 1..Len(result) : result[i].title = title
    IN  result[i].sub_stories

\* C11 (as claimed): with no snapshot for the slug, every sub-story written
\* by a save is read back through the entity-graph path with the same title
\* and content (the empty string stays the empty string) and with the
\* page_number, dialogue, illustration_prompt and illustration_image of each
\* of its pages.
C11_RoundTripSubStories ==
    [][\A s \in RoundTripSlugs, d \in RoundTripSubInputs :
         (~loadBookJSON(s).exists /\ Save(s, d)) =>
            /\ getBookWithChaptersAndPages(s)'.source = "store"
            /\ \A w \in Range(d.chapters[1].sub_stories) :
                  \E r \in Range(ReadBackSubStories(s, d.chapters[1].title)') :
                     /\ r.sub_story_number = w.sub_story_number
                     /\ r.title = w.title
                     /\ r.content = w.content
                     /\ Range(r.sections) = Range(w.sections)]_vars

-----------------------------------------------------------------------------
(* Properties of the resolver (SpecResolver) *)

-----------------------------------------------------------------------------
(* Properties of saves under store faults (SpecFaults) *)

\* every section of a chapter of the request body, flat or within a sub-story
RECURSIVE SectionsOfSubStories(_)
SectionsOfSubStories(subs) ==
    IF subs = <<>> THEN {}
    ELSE Range(Head(subs).sections) \cup SectionsOfSubStories(Tail(subs))

SectionsOfChapter(chapterData) ==
    IF chapterData.reading = "sub_stories" THEN SectionsOfSubStories(chapterData.sub_stories)
    ELSE IF chapterData.reading = "sections" THEN Range(chapterData.sections)
    ELSE {}

\* the chapter row of that title in the book of the slug, in a store value
ChapterRows(st, safeTitle, title) ==
    {c \in st.chapters :
        /\ c.title = title
        /\ \E b \in st.books : b.safe_title = safeTitle /\ b.id = c.book_id}

\* C13: when the store rejects some page upserts and nothing else, the save
\* answers success, every chapter of the request has its row, every section
\* whose upsert was not rejected has its page row with the written dialogue
\* in that chapter, and the rows of the rejected pages stay as they were.
C13_PageFaultIsolation ==
    [][\A s \in FaultSlugs, d \in FaultSaveInputs, fp \in SUBSET FaultPageNumbers :
         SaveWithFaults(s, d, fp, {}) =>
            /\ resp'.code = 200
            /\ \A i \in 1..Len(d.chapters) :
                  /\ ChapterRows(Store', s, d.chapters[i].title) # {}
                  /\ \A c \in ChapterRows(Store', s, d.chapters[i].title) :
                        \A w \in SectionsOfChapter(d.chapters[i]) :
                           IF w.page_number \in fp
                           THEN {x \in pages' : x.chapter_id = c.id /\ x.page_number = w.page_number}
                                  = {x \in pages : x.chapter_id = c.id
                                                    /\ x.page_number = w.page_number}
                           ELSE \E x \in pages' :
                                   /\ x.chapter_id = c.id
                                   /\ x.page_number = w.page_number
                                   /\ x.dialogue = w.dialogue]_vars

\* A successful save in which page 1 was rejected: chapter A has page 2 and
\* no page 1, the later chapter B exists and has no page 1 either.
C13_Witness ==
    /\ resp.op = "save" /\ resp.code = 200
    /\ \E a, b \in chapters :
          /\ a.title = "A" /\ b.title = "B" /\ a.book_id = b.book_id
          /\ \E x \in pages : x.chapter_id = a.id /\ x.page_number = 2
          /\ ~\E x \in pages : x.chapter_id = a.id /\ x.page_number = 1
          /\ ~\E x \in pages : x.chapter_id = b.id

\* C14 (as claimed): when the store rejects the upsert of some sub-stories,
\* only those sub-stories are dropped: every chapter of the request has its
\* row, and every sub-story whose upsert was not rejected has its row with
\* the written content.
C14_SubStoryFaultLocal ==
    [][\A s \in FaultSlugs, d \in FaultSaveInputs, fs \in SUBSET FaultSubStoryNumbers :
         SaveWithFaults(s, d, {}, fs) =>
            \A i \in 1..Len(d.chapters) :
               /\ ChapterRows(Store', s, d.chapters[i].title) # {}
               /\ \A c \in ChapterRows(Store', s, d.chapters[i].title) :
                     \A j \in 1..Len(d.chapters[i].sub_stories) :
                        LET w == d.chapters[i].sub_stories[j]
                        IN  w.sub_story_number \notin fs =>
                               \E x \in subStories' :
                                  /\ x.chapter_id = c.id
                                  /\ x.sub_story_number = w.sub_story_number
                                  /\ x.content = w.content]_vars

-----------------------------------------------------------------------------
(* Properties of the trigger endpoint (SpecTrigger) *)

\* C15: a successful request with action both publishes exactly two messages,
\* the content message (regenerate_content, routing content) before the
\* illustrations message (regenerate_illustrations_only, routing
\* illustrations), and returns their two identifiers in that order; a
\* successful request with action content or illustrations publishes exactly
\* one message, routed by the action and carrying only the matching flag.
C15_TriggerMessages ==
    [][\A s \in TriggerSlugs, a \in TriggerActions, c \in TriggerChapters, f \in PublishFaults :
         (Trigger(s, a, c, TRUE, f) /\ resp'.code = 200) =>
            LET n == Len(published)
                sent == SubSeq(published', n + 1, Len(published'))
            IN  /\ SubSeq(published', 1, n) = published
                /\ \A i \in 1..Len(sent) : sent[i].book_safe_title = s
                /\ IF a = "both"
                   THEN /\ Len(sent) = 2
                        /\ sent[1].action = "content"
                        /\ sent[1].regenerate_content /\ ~sent[1].regenerate_illustrations_only
                        /\ sent[2].action = "illustrations"
                        /\ sent[2].regenerate_illustrations_only /\ ~sent[2].regenerate_content
                        /\ resp'.messageIds = <<n + 1, n + 2>>
                   ELSE /\ Len(sent) = 1
                        /\ sent[1].action = a
                        /\ sent[1].regenerate_content <=> a = "content"
                        /\ sent[1].regenerate_illustrations_only <=> a = "illustrations"
                        /\ resp'.messageIds = <<n + 1>>]_vars

\* A both request for a chapter answered after a single request: the topic
\* holds an illustrations message, then content and illustrations for the
\* chapter, and the response names the last two.
C15_Witness ==
    /\ resp.op = "trigger" /\ resp.code = 200
    /\ Len(published) = 3
    /\ resp.messageIds = <<2, 3>>
    /\ published[1].action = "illustrations"
    /\ published[2].action = "content" /\ published[2].chapter_title = "A"
    /\ published[3].action = "illustrations" /\ published[3].chapter_title = "A"

\* C16: a request without bookSafeTitle is answered 400 and a request whose
\* topic does not exist 404, both without publishing; a rejected publish
\* call is answered 500 in the same request, the messages published before
\* it stay published, nothing is published after it, and no request makes
\* more publish calls than it has messages.
C16_TriggerFailures ==
    [][\A s \in TriggerSlugs, a \in TriggerActions, c \in TriggerChapters,
          hp \in BOOLEAN, f \in PublishFaults :
         Trigger(s, a, c, hp, f) =>
            LET n == Len(published)
                planned == IF a = "both" THEN 2 ELSE 1
            IN  /\ s = "" => (resp'.code = 400 /\ published' = published /\ resp'.attempts = 0)
                /\ (s # "" /\ hp /\ ~topicExists) =>
                      (resp'.code = 404 /\ published' = published /\ resp'.attempts = 0)
                /\ (s # "" /\ hp /\ topicExists /\ f \in 1..planned) =>
                      /\ resp'.code = 500
                      /\ resp'.messageIds = <<>>
                      /\ resp'.attempts = f
                      /\ Len(published') = n + f - 1
                      /\ SubSeq(published', 1, n) = published
                /\ resp'.attempts <= planned
                /\ Len(published') - n <= resp'.attempts]_vars

\* A both request whose second publish call was rejected: answered 500 after
\* two calls, with the content message on the topic.
C16_Witness ==
    /\ resp.op = "trigger" /\ resp.code = 500 /\ resp.attempts = 2
    /\ Len(published) = 1
    /\ published[1].action = "content"

-----------------------------------------------------------------------------
(* Properties of the polling views (SpecPoll) *)

\* the timers of a book whose component is still mounted
LiveTimers(running, slug) == {t \in running : t.slug = slug /\ ~t.orphan}

TerminalResult(r) ==
    /\ r.code = 200
    /\ ~r.isProcessing
    /\ r.overallStatus \in {"completed", "failed", "unknown"}

NonTerminalResult(r) ==
    /\ r.code = 200
    /\ \/ r.overallStatus \in {"processing", "in_progress", "pending"}
       \/ r.bookStatus = "not_found"

\* C17 (as claimed): when a tick of a mounted view's timer fetches a terminal
\* result (isProcessing false with overallStatus completed, failed or
\* unknown), no timer of that view is left running for the book, a timer
\* started by a trigger included.
C17_StopsAtTerminal ==
    [][\A h \in 1..MaxTimers :
         (TimerFires(h) /\ ~timerOf(h).orphan /\ TerminalResult(resp')) =>
            LiveTimers(timers', timerOf(h).slug) = {}]_vars

\* C18 (as claimed): when a tick of a mounted view's timer fetches a result
\* that is not terminal (overallStatus processing, in_progress or pending,
\* or a book that is not created yet), a timer of that view keeps running
\* for the book, on the run page and on the management page.
C18_KeepsPolling ==
    [][\A h \in 1..MaxTimers :
         (TimerFires(h) /\ ~timerOf(h).orphan /\ NonTerminalResult(resp')) =>
            LiveTimers(timers', timerOf(h).slug) # {}]_vars

\* C19 (as claimed): on the management page at most one timer runs per book,
\* and it is the one whose handle statusPolling holds for the book.
C19_OneTimerPerBook ==
    view = "management" =>
       \A s \in Slugs :
          /\ Cardinality(LiveTimers(timers, s)) <= 1
          /\ \A t \in LiveTimers(timers, s) : statusPolling[s] = t.id

\* C20 (as claimed): when a polling view is unmounted, every timer it had
\* running at that moment is cleared.
C20_TeardownClearsTimers ==
    [][(view # "none" /\ view' = "none") =>
          \A t \in timers : ~t.orphan => ~\E u \in timers' : u.id = t.id]_vars

-----------------------------------------------------------------------------
(* Properties of requests for absent books (SpecAbsent) *)

\* C21: for a slug with no Book row, the status endpoint answers 200 with
\* bookStatus not_found, overallStatus unknown, isProcessing false and no
\* steps; stop, history removal and book deletion answer 404; none of the
\* four creates, changes or deletes a row of the store.
C21_AbsentBook ==
    [][\A s \in AbsentSlugs :
         ~HasBook(s) =>
            /\ GetStatus(s) =>
                  /\ resp'.code = 200
                  /\ resp'.bookStatus = "not_found"
                  /\ resp'.overallStatus = "unknown"
                  /\ ~resp'.isProcessing
                  /\ resp'.stepCount = 0
                  /\ UNCHANGED <<books, chapters, subStories, pages, steps>>
            /\ (Stop(s) \/ RemoveHistory(s) \/ DeleteBook(s)) =>
                  /\ resp'.code = 404
                  /\ UNCHANGED <<books, chapters, subStories, pages, steps>>]_vars

\* A deletion answered 404 while the other book has its chapter, page and
\* step rows.
C21_Witness ==
    /\ resp.op = "delete" /\ resp.code = 404
    /\ ~HasBook(resp.slug)
    /\ books # {} /\ chapters # {} /\ pages # {} /\ steps # {}

-----------------------------------------------------------------------------
(* Properties of saves that edit the title (SpecTitle) *)

\* C22: a save addressed to slug s, with or without a new book_title, leaves
\* every Book row its safe_title and identifier, gives a row it creates the
\* safe_title s, leaves exactly the row it found (or the one it created)
\* under s, and leaves every chapter that existed attached to the same book.
C22_SafeTitleKept ==
    [][\A s \in TitleSlugs, d \in TitleSaveInputs :
         Save(s, d) =>
            /\ \A b \in books : \E n \in books' : n.id = b.id /\ n.safe_title = b.safe_title
            /\ \A n \in books' : (~\E b \in books : b.id = n.id) => n.safe_title = s
            /\ Cardinality(BooksBySafeTitle(s)') = 1
            /\ HasBook(s) => getBookBySafeTitle(s)'.id = getBookBySafeTitle(s).id
            /\ OrStr(d.book_title, "") # "" => getBookBySafeTitle(s)'.title = d.book_title
            /\ \A c \in chapters : \E n \in chapters' : n.id = c.id /\ n.book_id = c.book_id]_vars

\* The book saved as Tiny_Tales with title T1 was renamed T2 by a later save
\* and still has its chapter, next to a book whose slug is T1.
C22_Witness ==
    /\ resp.op = "save" /\ resp.slug = "Tiny_Tales"
    /\ HasBook("T1")
    /\ \E b \in books :
          /\ b.safe_title = "Tiny_Tales" /\ b.title = "T2"
          /\ \E c \in chapters : c.book_id = b.id /\ c.title = "A"

-----------------------------------------------------------------------------
(* Properties of the shape of the resolver's result (SpecShape) *)

SectionFields == {"page_number", "illustration_prompt", "dialogue", "illustration_image"}

\* image_url when it is non-empty, else image_gcs_key, else the empty string
ImageOf(source) ==
    IF source.image_url \notin {Undef, ""} THEN source.image_url
    ELSE IF source.image_gcs_key \notin {Undef, ""} THEN source.image_gcs_key
    ELSE ""

\* the sections of a result against the sources they were built from
SectionsMatch(sections, sources) ==
    /\ Len(sections) = Len(sources)
    /\ \A k \in 1..Len(sections) :
          /\ DOMAIN sections[k] = SectionFields
          /\ sections[k].page_number = sources[k].page_number
          /\ sections[k].dialogue = sources[k].dialogue
          /\ sections[k].illustration_prompt = sources[k].illustration_prompt
          /\ sections[k].illustration_image = ImageOf(sources[k])

\* every section of the result has the four fields
UniformSections(body) ==
    \A i \in 1..Len(body.chapters) :
       /\ \A k \in 1..Len(body.chapters[i].sections) :
             DOMAIN body.chapters[i].sections[k] = SectionFields
       /\ \A j \in 1..Len(body.chapters[i].sub_stories) :
             \A k \in 1..Len(body.chapters[i].sub_stories[j].sections) :
                DOMAIN body.chapters[i].sub_stories[j].sections[k] = SectionFields

\* a result of the snapshot path against the snapshot document
SnapshotShape(body, doc) ==
    /\ Len(body.chapters) = Len(doc.chapters)
    /\ \A i \in 1..Len(doc.chapters) :
          LET chapter == body.chapters[i]
              source == doc.chapters[i]
          IN  IF source.reading = "sub_stories"
              THEN /\ chapter.reading = "sub_stories"
                   /\ chapter.sections = <<>>
                   /\ Len(chapter.sub_stories) = Len(source.sub_stories)
                   /\ \A j \in 1..Len(source.sub_stories) :
                         SectionsMatch(chapter.sub_stories[j].sections,
                                       source.sub_stories[j].sections)
              ELSE /\ chapter.reading = "sections"
                   /\ chapter.sub_stories = <<>>
                   /\ SectionsMatch(chapter.sections, source.sections)

\* a result of the entity-graph path against the rows of the store, when
\* the sub_stories query of the chapters in failReads was rejected
StoreShape(body, safeTitle, failReads) ==
    LET rows == chaptersOf(Store, getBookBySafeTitle(safeTitle).id)
    IN  /\ Len(body.chapters) = Len(rows)
        /\ \A i \in 1..Len(rows) :
              LET chapter == body.chapters[i]
                  subs == SortBy({x \in subStories : x.chapter_id = rows[i].id},
                                 "sub_story_number")
              IN  IF subs # <<>> /\ rows[i].id \notin failReads
                  THEN /\ chapter.reading = "sub_stories"
                       /\ chapter.sections = <<>>
                       /\ Len(chapter.sub_stories) = Len(subs)
                       /\ \A j \in 1..Len(subs) :
                             SectionsMatch(chapter.sub_stories[j].sections,
                                           pagesOfSubStory(Store, subs[j].id))
                  ELSE /\ chapter.reading = "sections"
                       /\ chapter.sub_stories = <<>>
                       /\ SectionsMatch(chapter.sections, pagesOfChapter(Store, rows[i].id))

HasSubStoryRows(safeTitle, title) ==
    \E b \in books, c \in chapters, x \in subStories :
       /\ b.safe_title = safeTitle
       /\ c.book_id = b.id /\ c.title = title
       /\ x.chapter_id = c.id

-----------------------------------------------------------------------------
(* Properties of saves of sub-stories with their own page numbers (SpecOwn) *)

\* C24 (as claimed): after a save of a chapter with several sub-stories,
\* every page of every sub-story of the request has its Page row under the
\* chapter, with the dialogue written for it, also when two sub-stories use
\* the same page_number: no sub-story's page is overwritten by another's.
C24_PagesOwnedBySubStory ==
    [][\A s \in OwnSlugs, d \in OwnSaveInputs :
         Save(s, d) =>
            \A c \in ChapterRows(Store', s, d.chapters[1].title) :
               \A j \in 1..Len(d.chapters[1].sub_stories) :
                  \A w \in Range(d.chapters[1].sub_stories[j].sections) :
                     \E x \in pages' :
                        /\ x.chapter_id = c.id
                        /\ x.page_number = w.page_number
                        /\ x.dialogue = w.dialogue]_vars

-----------------------------------------------------------------------------
(* Properties of the deletion cascade (SpecCascade) *)

\* C25: in every state of a cascade, also one it was abandoned in, every
\* Chapter row has its Book row and every Page row keyed by a chapter has
\* its Chapter row; the cascade reads the chapter list only after the
\* book's steps are gone, commits the chapter deletions only after the
\* pages of every listed chapter are gone, and deletes the Book row only
\* after its chapters are gone.
C25_CascadeOrder ==
    /\ \A c \in chapters : \E b \in books : b.id = c.book_id
    /\ \A x \in pages : x.chapter_id # 0 => \E c \in chapters : c.id = x.chapter_id
    /\ \A p \in CascadeProcs :
          /\ pc[p] \in {"delChapterList", "delChapters", "delBook"} =>
                ~\E x \in steps : x.book_id = loc[p].bookId
          /\ pc[p] = "delChapters" =>
                \A i \in 1..loc[p].count :
                   ~\E x \in pages : x.chapter_id = loc[p].chapterIds[i]
          /\ pc[p] = "delBook" =>
                /\ ~\E c \in chapters : c.book_id = loc[p].bookId
                /\ \E b \in books : b.id = loc[p].bookId

\* A cascade over two chapters that has deleted the steps and the pages of
\* the first chapter: the second chapter still has its page, both Chapter
\* rows and the Book row exist.
C25_Witness ==
    \E p \in CascadeProcs :
       /\ pc[p] = "delChapters"
       /\ Len(loc[p].chapterIds) = 2 /\ loc[p].count = 1
       /\ \E x \in pages : x.chapter_id = loc[p].chapterIds[2]
       /\ Cardinality({c \in chapters : c.book_id = loc[p].bookId}) = 2
       /\ \E b \in books : b.id = loc[p].bookId

-----------------------------------------------------------------------------
(* Properties of stop against the worker (SpecStopRace) *)

\* C26 (as claimed): when stop commits its batch, every step whose stored
\* status is completed or failed at that moment keeps its status, also a
\* step the worker completed after stop had read the step list.
C26_StopKeepsTerminalSteps ==
    [][\A p \in StopRaceProcs :
         StopCommit(p) =>
            \A x \in steps :
               x.status \in {"completed", "failed"} =>
                  \E y \in steps' : y.id = x.id /\ y.status = x.status]_vars

-----------------------------------------------------------------------------
(* Stop against the status derivation (SpecStatus) *)

\* C27 (as claimed): a stop request on an existing book sets every step
\* that the status endpoint counts as active (in_progress or processing in
\* any letter case) to cancelled and counts it in cancelledSteps, so that
\* the state stop leaves has no step the status endpoint counts as active.
C27_StopCancelsWhatStatusCounts ==
    [][\A s \in StatusSlugs :
         (HasBook(s) /\ Stop(s)) =>
            LET active == {x \in StepsOfSlug(s) : IsActiveStatus(x.status)}
            IN  /\ \A x \in active : \E y \in steps' : y.id = x.id /\ y.status = "cancelled"
                /\ resp'.cancelledSteps = Cardinality(active)
                /\ \A y \in steps' :
                      y.book_id = getBookBySafeTitle(s).id => ~IsActiveStatus(y.status)]_vars

-----------------------------------------------------------------------------
(* Action both under a rejected second publish (SpecTrigger) *)

\* C28: when the content publish of a both request succeeds and the
\* illustrations publish is rejected, the request is answered 500 without
\* messageIds after exactly two publish calls, and the topic holds what it
\* held before plus the content message: the message is not withdrawn and
\* no publish is repeated.
C28_BothNotAtomic ==
    [][\A s \in TriggerSlugs, c \in TriggerChapters :
         (s # "" /\ topicExists /\ Trigger(s, "both", c, TRUE, 2)) =>
            /\ resp'.code = 500
            /\ resp'.messageIds = <<>>
            /\ resp'.attempts = 2
            /\ Len(published') = Len(published) + 1
            /\ SubSeq(published', 1, Len(published)) = published
            /\ LET m == published'[Len(published')]
               IN  /\ m.action = "content"
                   /\ m.regenerate_content /\ ~m.regenerate_illustrations_only
                   /\ m.book_safe_title = s
                   /\ m.chapter_title = c]_vars

\* After a successful illustrations request, a both request for chapter A
\* whose second publish was rejected: answered 500 with no identifiers, the
\* topic holding the earlier message and the chapter's content message.
C28_Witness ==
    /\ resp.op = "trigger" /\ resp.code = 500 /\ resp.attempts = 2
    /\ resp.messageIds = <<>>
    /\ Len(published) = 2
    /\ published[1].action = "illustrations"
    /\ published[2].action = "content" /\ published[2].chapter_title = "A"

-----------------------------------------------------------------------------
(* Properties of a stopped book under the management page (SpecCancelled) *)

\* the stop's writes stand: the book is cancelled, at least one of its
\* steps is cancelled and none is failed
StoppedWithCancelledStep(s) ==
    /\ HasBook(s)
    /\ getBookBySafeTitle(s).status = "cancelled"
    /\ \E x \in StepsOfSlug(s) : x.status = "cancelled"
    /\ \A x \in StepsOfSlug(s) : ~IsFailedStatus(x.status)

\* C29: once a book is stopped with at least one cancelled step and no
\* failed step, every status request for it answers overallStatus processing
\* with isProcessing TRUE, and every tick of a management-page timer for it
\* gets that answer, records it, and leaves every timer of the book running
\* and the book's handle in statusPolling.
C29_CancelledPolledForever ==
    [][/\ \A s \in CancelledSlugs :
            (StoppedWithCancelledStep(s) /\ GetStatus(s)) =>
               /\ resp'.code = 200
               /\ resp'.overallStatus = "processing"
               /\ resp'.isProcessing
       /\ \A h \in 1..MaxTimers :
            (/\ view = "management"
             /\ \E t \in timers : t.id = h /\ ~t.orphan
                                  /\ StoppedWithCancelledStep(t.slug)
             /\ TimerFires(h)) =>
               LET slug == timerOf(h).slug
               IN  /\ resp'.overallStatus = "processing"
                   /\ resp'.isProcessing
                   /\ pipelineStatuses'[slug].isProcessing
                   /\ {t \in timers : t.slug = slug} \subseteq timers'
                   /\ statusPolling'[slug] # NoTimer
                   /\ \E t \in LiveTimers(timers', slug) : t.id = statusPolling'[slug]]_vars

\* The management page after a tick for a stopped book whose two steps are
\* one cancelled and one completed: the answer was processing, the page
\* holds it with bookStatus cancelled, and the book's timer is running.
C29_Witness ==
    /\ view = "management"
    /\ resp.op = "status" /\ resp.bookStatus = "cancelled"
    /\ resp.overallStatus = "processing" /\ resp.isProcessing
    /\ \E x \in steps : x.status = "cancelled"
    /\ \E x \in steps : x.status = "completed"
    /\ pipelineStatuses["Tiny_Tales"].bookStatus = "cancelled"
    /\ pipelineStatuses["Tiny_Tales"].isProcessing
    /\ \E t \in timers : ~t.orphan /\ t.id = statusPolling["Tiny_Tales"]

-----------------------------------------------------------------------------
(* Shape of the status response (SpecStatus) *)

OverallStatusValues == {"pending", "processing", "completed", "failed", "unknown"}

\* C30: every 200 answer of the status endpoint has isProcessing TRUE
\* exactly when overallStatus is processing, an overallStatus among pending,
\* processing, completed, failed and unknown, and overallStatus unknown
\* only for a slug without a Book row.
C30_StatusShape ==
    [][\A s \in StatusSlugs \cup {""} :
         (GetStatus(s) /\ resp'.code = 200) =>
            /\ resp'.isProcessing <=> (resp'.overallStatus = "processing")
            /\ resp'.overallStatus \in OverallStatusValues
            /\ (resp'.overallStatus = "unknown") => ~HasBook(s)]_vars

\* A status answer for a book stored without a status whose only step has
\* no status either: bookStatus unknown, overallStatus processing.
C30_Witness ==
    /\ resp.op = "status" /\ resp.code = 200
    /\ HasBook(resp.slug)
    /\ getBookBySafeTitle(resp.slug).status = Undef
    /\ resp.bookStatus = "unknown"
    /\ resp.stepCount = 1
    /\ \A x \in StepsOfSlug(resp.slug) : x.status = Undef
    /\ resp.overallStatus = "processing" /\ resp.isProcessing

====
